---------------------------- MODULE Spec2Model ----------------------------
(***************************************************************************)
(* A model of the tool layer of my-agent-2026: the tool registry           *)
(* (tools/tool_factory.py), the tool base class (tools/__init__.py) and    *)
(* the calculator, time, file and web tools, and of the conversation       *)
(* history of the agent (agents/qwen_agent.py).                            *)
(*                                                                         *)
(* Strings are sequences of tokens.  A token is a literal piece of text    *)
(* (one character, or a word such as "import"); TokLen gives the number of *)
(* characters it stands for.  A result string of the program is a record   *)
(* [msg, body]: msg names the fixed message text the code formats and body *)
(* is the interpolated text.  POSIX paths are modelled.                    *)
(***************************************************************************)
EXTENDS Integers, Sequences, FiniteSets, TLC

VARIABLES tools, base_path, fs, last, conversation_history, memory, successes

vars == <<tools, base_path, fs, last, conversation_history, memory, successes>>

(***************************************************************************)
(* Bounds of the model.                                                    *)
(***************************************************************************)
\* characters of a long file/path/URL/description used to exercise caps
LongNameLen == 5100

(***************************************************************************)
(* Generic helpers.                                                        *)
(***************************************************************************)
Min(a, b) == IF a <= b THEN a ELSE b

Max(a, b) == IF a >= b THEN a ELSE b

Take(s, n) == SubSeq(s, 1, Min(n, Len(s)))

Drop(s, n) == SubSeq(s, Min(n, Len(s)) + 1, Len(s))

IsPrefix(p, s) == Len(p) <= Len(s) /\ SubSeq(s, 1, Len(p)) = p

Rep(c, n) == [i \in 1..n |-> c]

SeqRange(s) == {s[i] : i \in 1..Len(s)}

\* F applied to the value of v, v evaluated once
Bind(v, F(_)) == CHOOSE r \in {F(x) : x \in {v}} : TRUE

(***************************************************************************)
(* The record of the last call: what the caller passed, what the handler   *)
(* did on the way (validation, execution, interpreter, HTTP requests,      *)
(* filesystem paths touched) and what came back.                           *)
(***************************************************************************)
NoPath == [abs |-> FALSE, segs |-> <<>>]

NoResult == [msg |-> "", body |-> <<>>]

NoCall ==
    [tool |-> "", via |-> "", op |-> "", name |-> "",
     expression |-> <<>>, path |-> NoPath, content |-> <<>>, url |-> <<>>,
     validated |-> FALSE, accepted |-> FALSE, executed |-> FALSE,
     evalReached |-> FALSE, requests |-> 0, touched |-> {},
     raised |-> FALSE, returned |-> FALSE, result |-> NoResult,
     lookup |-> {}, names |-> {}, follows_write |-> FALSE, outcome |-> "",
     visited |-> {}, found |-> 0, refs |-> <<>>, kwargs |-> <<>>, threw |-> "",
     user_input |-> <<>>, success |-> FALSE, error |-> "", invoked |-> FALSE,
     limit |-> 0, history |-> <<>>]

\* self.memory = None
NoMemory == [present |-> FALSE, messages |-> 0]

(***************************************************************************)
(* tools/tool_factory.py: the registry.                                    *)
(***************************************************************************)
\* description[:200] of tool_factory.py
DescriptionLimit == 200

\* len(description) of the four tool instances
DescriptionLen ==
    [calculator |-> 209, time_tool |-> 174, file_tool |-> 188, web_tool |-> 175]

Tool(name, doc, doclen, func) ==
    [name |-> name,
     description |-> [doc |-> doc, len |-> Min(doclen, DescriptionLimit)],
     func |-> func]

BuiltinNames == {"calculator", "time_tool", "file_tool", "web_tool"}

register_tools ==
    [n \in BuiltinNames |->
        Tool(n, n, DescriptionLen[n],
             CASE n = "calculator" -> "calculator_tool.execute"
               [] n = "time_tool"  -> "time_tool.execute"
               [] n = "file_tool"  -> "file_tool.execute(list)"
               [] n = "web_tool"   -> "web_tool.execute(fetch)")]

\* names a caller may ask for
ToolNames == BuiltinNames \cup {"nonexistent_tool", "custom"}

\* names a caller may register a custom tool under
CustomNames == {"custom", "calculator"}

\* descriptions a caller may pass to create_custom_tool: <<id, length>>
CustomDocs == {<<"short_doc", 40>>, <<"long_doc", LongNameLen>>}

\* the calls of create_custom_tool: a new name with a short and with a long
\* description, and the name of a tool that is registered
CustomCalls ==
    {[name |-> n, doc |-> d] : n \in CustomNames, d \in CustomDocs}
    \ {[name |-> "calculator", doc |-> <<"long_doc", LongNameLen>>]}

\* a lookup that falls back to a default tool for a name that is missing
dict_get_default(name) ==
    IF name \in DOMAIN tools THEN {tools[name]} ELSE {tools["calculator"]}

\* self._tools.get(tool_name): the descriptor, or None (the empty set)
dict_get(name) == IF name \in DOMAIN tools THEN {tools[name]} ELSE {}

get_tool(name) ==
    /\ last' = [NoCall EXCEPT !.via = "get_tool", !.name = name,
                   !.returned = TRUE, !.lookup = dict_get(name)]
    /\ UNCHANGED <<tools, base_path, fs, conversation_history, memory, successes>>

get_all_tools ==
    /\ last' = [NoCall EXCEPT !.via = "get_all_tools", !.returned = TRUE,
                   !.lookup = {tools[n] : n \in DOMAIN tools}]
    /\ UNCHANGED <<tools, base_path, fs, conversation_history, memory, successes>>

get_tool_names ==
    /\ last' = [NoCall EXCEPT !.via = "get_tool_names", !.returned = TRUE,
                   !.names = DOMAIN tools]
    /\ UNCHANGED <<tools, base_path, fs, conversation_history, memory, successes>>

\* one line per tool: the name and description[:100]
get_tool_descriptions ==
    /\ last' = [NoCall EXCEPT !.via = "get_tool_descriptions", !.returned = TRUE,
                   !.lookup = {[name |-> n,
                                description |->
                                    [doc |-> tools[n].description.doc,
                                     len |-> Min(tools[n].description.len, 100)],
                                func |-> ""] : n \in DOMAIN tools}]
    /\ UNCHANGED <<tools, base_path, fs, conversation_history, memory, successes>>

\* a store that rebinds the dictionary instead of adding to it
create_custom_tool_rebind(name, tool) == [n \in {name} |-> tool]

\* self._tools[name] = tool
create_custom_tool_store(name, tool) ==
    [n \in DOMAIN tools \cup {name} |-> IF n = name THEN tool ELSE tools[n]]

create_custom_tool(name, doc, func) ==
    /\ LET tool == Tool(name, doc[1], doc[2], func)
       IN /\ tools' = create_custom_tool_store(name, tool)
          /\ last' = [NoCall EXCEPT !.via = "create_custom_tool", !.name = name,
                         !.returned = TRUE, !.lookup = {tool}]
    /\ UNCHANGED <<base_path, fs, conversation_history, memory, successes>>

(***************************************************************************)
(* Text at token level.                                                    *)
(***************************************************************************)
\* str.lower() of a token (only the tokens of the model that have capitals)
Lower(t) ==
    CASE t = "IMPORT" -> "import"
      [] t = "Exec"   -> "exec"
      [] t = "OS"     -> "os"
      [] t = "TO"     -> "to"
      [] t = "C"      -> "c"
      [] t = "F"      -> "f"
      [] t = "K"      -> "k"
      [] t = "KM"     -> "km"
      [] t = "SQRT"   -> "sqrt"
      [] t = "MAX"    -> "max"
      [] t = "M"      -> "m"
      [] OTHER        -> t

LowerSeq(s) == [i \in 1..Len(s) |-> Lower(s[i])]

\* str.upper() of a unit token
Upper(t) ==
    CASE t = "c" -> "C" [] t = "f" -> "F" [] t = "k" -> "K" [] OTHER -> t

IsSpace(t) == t \in {" ", "\n"}

Digits == {"0", "1", "2", "3", "4", "5", "9", "10", "15", "16", "32", "40", "100", "212"}

\* tokens made of letters only ([a-zA-Z]+)
IsAlpha(t) ==
    Lower(t) \in {"import", "exec", "eval", "open", "os", "sys", "subprocess",
                  "to", "c", "f", "k", "km", "m", "cm", "kg", "g", "lb", "x",
                  "abs", "sqrt", "sin", "cos", "tan", "log", "ln", "exp",
                  "math", "pi", "e", "foo", "self", "exit", "round", "total",
                  "mean", "median", "std", "var", "longname", "min", "max",
                  "sum", "inch", "ft", "mile", "mg", "oz", "ton", "mm"}

\* len() of a token
TokLen(t) ==
    CASE t \in {"10", "15", "16", "32", "40", "to", "TO", "km", "KM", "cm", "kg", "lb",
                "os", "OS", "__", "pi", "ln", "**", "ft", "mg", "oz", "mm"} -> 2
      [] t \in {"100", "212", "abs", "sin", "cos", "tan", "log", "exp", "sys",
                "foo", "std", "var", "min", "max", "sum", "MAX", "ton"} -> 3
      [] t \in {"exec", "Exec", "eval", "open", "sqrt", "SQRT", "math", "self",
                "exit", "mean", "inch", "mile"} -> 4
      [] t \in {"round", "total", "log10"} -> 5
      [] t \in {"import", "IMPORT", "median"} -> 6
      [] t = "Decimal" -> 7
      [] t = "subprocess" -> 10
      [] t = "longname" -> LongNameLen
      [] OTHER -> 1

RECURSIVE TextLen(_)
TextLen(s) ==
    IF s = <<>> THEN 0
    ELSE IF Len(s) = 1 THEN TokLen(s[1])
    ELSE TextLen(SubSeq(s, 1, Len(s) \div 2)) + TextLen(SubSeq(s, Len(s) \div 2 + 1, Len(s)))

\* s.strip(): leading and trailing whitespace removed
RECURSIVE LStrip(_)
LStrip(s) == IF s # <<>> /\ IsSpace(Head(s)) THEN LStrip(Tail(s)) ELSE s

RECURSIVE RStrip(_)
RStrip(s) ==
    IF s # <<>> /\ IsSpace(s[Len(s)]) THEN RStrip(SubSeq(s, 1, Len(s) - 1)) ELSE s

Strip(s) == RStrip(LStrip(s))

(***************************************************************************)
(* tools/calculator_tool.py: validate_input.                               *)
(***************************************************************************)
\* re.search(word \s+) with re.IGNORECASE
SearchWordSpace(expr, words) ==
    \E i \in 1..Len(expr) - 1 : Lower(expr[i]) \in words /\ IsSpace(expr[i + 1])

\* re.search(word \s* "(") with re.IGNORECASE
SearchWordParen(expr, words) ==
    \E i \in 1..Len(expr) : \E j \in i + 1..Len(expr) :
        /\ Lower(expr[i]) \in words
        /\ expr[j] = "("
        /\ \A k \in i + 1..j - 1 : IsSpace(expr[k])

\* re.search(word "\.") with re.IGNORECASE; words are the tokens ending in it
SearchWordDot(expr, words) ==
    \E i \in 1..Len(expr) - 1 : Lower(expr[i]) \in words /\ expr[i + 1] = "."

\* re.search("__.*__"): "." does not match a newline
SearchDunder(expr) ==
    \E i \in 1..Len(expr) : \E j \in i + 1..Len(expr) :
        /\ expr[i] = "__"
        /\ expr[j] = "__"
        /\ \A k \in i + 1..j - 1 : expr[k] # "\n"

dangerous_patterns(expr) ==
    \/ SearchWordSpace(expr, {"import"})
    \/ SearchWordParen(expr, {"exec"})
    \/ SearchWordParen(expr, {"eval"})
    \/ SearchDunder(expr)
    \/ SearchWordParen(expr, {"open"})
    \/ SearchWordDot(expr, {"os", "cos"})
    \/ SearchWordDot(expr, {"sys"})
    \/ SearchWordDot(expr, {"subprocess"})

\* input_data is the kwargs of the call; hasExpr: the key "expression" is there
Calculator_validate_input(hasExpr, expression) ==
    IF ~hasExpr \/ expression = <<>> THEN FALSE
    ELSE ~dangerous_patterns(expression)

(***************************************************************************)
(* tools/calculator_tool.py: _preprocess_expression.                       *)
(***************************************************************************)
\* re.sub(name \s* "(", replacement "(") for the function names, in the
\* order of the code: sin cos tan sqrt log ln exp abs.  A name token followed
\* by optional spaces and "(" is replaced; the spaces are consumed.
FuncReplacement(t) ==
    CASE Lower(t) \in {"sin", "cos", "tan", "sqrt", "exp"} -> <<"math", ".", Lower(t)>>
      [] Lower(t) = "log" -> <<"math", ".", "log10">>
      [] Lower(t) = "ln"  -> <<"math", ".", "log">>
      [] Lower(t) = "abs" -> <<"abs">>
      [] OTHER -> <<t>>

IsFuncName(t) ==
    Lower(t) \in {"sin", "cos", "tan", "sqrt", "log", "ln", "exp", "abs"}

\* index of the "(" that follows position i after optional spaces, or 0
RECURSIVE ParenAfter(_, _)
ParenAfter(expr, i) ==
    IF i + 1 > Len(expr) THEN 0
    ELSE IF expr[i + 1] = "(" THEN i + 1
    ELSE IF IsSpace(expr[i + 1]) THEN ParenAfter(expr, i + 1)
    ELSE 0

RECURSIVE SubFuncs(_, _)
SubFuncs(expr, i) ==
    IF i > Len(expr) THEN <<>>
    ELSE IF IsFuncName(expr[i]) /\ ParenAfter(expr, i) # 0
         THEN FuncReplacement(expr[i]) \o SubFuncs(expr, ParenAfter(expr, i))
         ELSE <<expr[i]>> \o SubFuncs(expr, i + 1)

ReplaceGlyph(t) ==
    CASE t = "×" -> "*" [] t = "÷" -> "/" [] t = "^" -> "**" [] OTHER -> t

preprocess_expression(expr) ==
    SubFuncs([i \in 1..Len(expr) |-> ReplaceGlyph(expr[i])], 1)

(***************************************************************************)
(* Numbers.  A Python int or float is a normalised rational n/d with a     *)
(* type tag; a float whose value is irrational (sin(1), pi) is "inexact".  *)
(* A value of the interpreter is a record [t, id, n, d]:                   *)
(*   t = "int" | "float"  the number n/d                                   *)
(*   t = "inexact"        a float that is not a rational of the model      *)
(*   t = "obj"            the object named id (module, function)           *)
(*   t = "err"            the exception named id was raised                *)
(***************************************************************************)
Abs(n) == IF n < 0 THEN -n ELSE n

RECURSIVE Gcd(_, _)
Gcd(a, b) == IF b = 0 THEN a ELSE Gcd(b, a % b)

Rat(t, n, d) ==
    LET g == Gcd(Abs(n), Abs(d))
        sg == IF d < 0 THEN -1 ELSE 1
    IN [t |-> t, id |-> "", n |-> (sg * n) \div g, d |-> (sg * d) \div g]

IntV(n) == [t |-> "int", id |-> "", n |-> n, d |-> 1]

FloatV(n, d) == Rat("float", n, d)

Inexact == [t |-> "inexact", id |-> "", n |-> 0, d |-> 1]

Obj(id) == [t |-> "obj", id |-> id, n |-> 0, d |-> 1]

Err(id) == [t |-> "err", id |-> id, n |-> 0, d |-> 1]

\* (an/ad) * (bn/bd), reduced before multiplying
RatMul(t, an, ad, bn, bd) ==
    LET g1 == Gcd(Abs(an), Abs(bd))
        g2 == Gcd(Abs(bn), Abs(ad))
    IN Rat(t, (an \div Max(g1, 1)) * (bn \div Max(g2, 1)),
              (ad \div Max(g2, 1)) * (bd \div Max(g1, 1)))

IsNum(v) == v.t \in {"int", "float"}

IsNumeric(v) == v.t \in {"int", "float", "inexact"}

IsErr(v) == v.t = "err"

RECURSIVE Pow(_, _)
Pow(b, e) == IF e = 0 THEN 1 ELSE b * Pow(b, e - 1)

\* decimal digits of a natural number, as tokens
Digit(k) ==
    CASE k = 0 -> "0" [] k = 1 -> "1" [] k = 2 -> "2" [] k = 3 -> "3"
      [] k = 4 -> "4" [] k = 5 -> "5" [] k = 6 -> "6" [] k = 7 -> "7"
      [] k = 8 -> "8" [] k = 9 -> "9"

RECURSIVE NatStr(_)
NatStr(n) == IF n < 10 THEN <<Digit(n)>> ELSE NatStr(n \div 10) \o <<Digit(n % 10)>>

IntStr(n) == IF n < 0 THEN <<"-">> \o NatStr(-n) ELSE NatStr(n)

\* the k digits of m, zero padded on the left
RECURSIVE PadStr(_, _)
PadStr(m, k) == IF k = 0 THEN <<>> ELSE PadStr(m \div 10, k - 1) \o <<Digit(m % 10)>>

RECURSIVE StripZeros(_)
StripZeros(s) ==
    IF Len(s) > 1 /\ s[Len(s)] = "0" THEN StripZeros(SubSeq(s, 1, Len(s) - 1)) ELSE s

\* floor(n/d * 10^k) and the remainder, by long division (n, d >= 0)
RECURSIVE LongDiv(_, _, _, _)
LongDiv(q, r, d, k) ==
    IF k = 0 THEN <<q, r>> ELSE LongDiv(q * 10 + (r * 10) \div d, (r * 10) % d, d, k - 1)

\* round(n/d * 10^k) to the nearest integer, ties to even
RoundScaled(n, d, k) ==
    LET qr == LongDiv(Abs(n) \div d, Abs(n) % d, d, k)
        q == qr[1]
        r == qr[2]
        up == (2 * r > d) \/ (2 * r = d /\ q % 2 = 1)
        m == IF up THEN q + 1 ELSE q
    IN IF n < 0 THEN -m ELSE m

\* str() of the float m / 10^k: at least one fractional digit, no trailing zeros
FixedStr(m, k) ==
    LET a == Abs(m)
    IN (IF m < 0 THEN <<"-">> ELSE <<>>) \o NatStr(a \div Pow(10, k))
       \o <<".">> \o StripZeros(PadStr(a % Pow(10, k), k))

\* format(x, ".kf"): exactly k fractional digits
FormatF(n, d, k) ==
    LET m == RoundScaled(n, d, k)
        a == Abs(m)
    IN (IF m < 0 THEN <<"-">> ELSE <<>>) \o NatStr(a \div Pow(10, k))
       \o <<".">> \o PadStr(a % Pow(10, k), k)

\* str() of a float
FloatStr(n, d) == FixedStr(RoundScaled(n, d, 6), 6)

(***************************************************************************)
(* tools/calculator_tool.py: _evaluate_math, the eval() of an expression   *)
(* under safe_dict.  The expression grammar is the arithmetic subset of    *)
(* Python: + - * / // % **, unary minus, parentheses, names, attribute     *)
(* access and calls.  A run-time exception is a value that propagates in   *)
(* evaluation order; a syntax error (ok = FALSE) wins over all of them,    *)
(* because Python compiles the text before it evaluates it.                *)
(***************************************************************************)
MathFunctions == {"sin", "cos", "tan", "sqrt", "log", "log10", "exp"}

BuiltinFunctions == {"abs", "round", "sum", "min", "max"}

\* the keys of safe_dict, with "__builtins__" empty
safe_dict(name) ==
    CASE name = "math" -> Obj("math")
      [] name \in {"pi", "e"} -> Inexact
      [] name \in BuiltinFunctions -> Obj(name)
      [] name = "Decimal" -> Obj("Decimal")
      [] name \in MathFunctions -> Obj(name)
      [] OTHER -> Err("NameError")

\* getattr(v, attr)
GetAttr(v, attr) ==
    IF IsErr(v) THEN v
    ELSE IF v.t = "obj" /\ v.id = "math"
         THEN IF attr \in MathFunctions THEN Obj(attr)
              ELSE IF attr \in {"pi", "e"} THEN Inexact
              ELSE Err("AttributeError")
    ELSE IF v.t = "obj" /\ v.id \in BuiltinFunctions \cup {"exit", "open", "eval", "exec"}
         THEN IF attr = "__self__" THEN Obj("builtins") ELSE Err("AttributeError")
    ELSE IF v.t = "obj" /\ v.id \in MathFunctions
         THEN IF attr = "__self__" THEN Obj("math") ELSE Err("AttributeError")
    ELSE IF v.t = "obj" /\ v.id = "builtins"
         THEN IF attr \in BuiltinFunctions \cup {"exit", "open", "eval", "exec"}
              THEN Obj(attr) ELSE Err("AttributeError")
    ELSE Err("AttributeError")

\* decimal.Decimal values.  t = "decimal" is the Decimal n / d with d = 10^k,
\* k the number of fractional digits it is written with (the fraction is not
\* reduced: Decimal('5.0') is 50/10); t = "dec_inexact" is a Decimal whose
\* digits the model does not track, taken to be non-zero
Dec(c, k) == [t |-> "decimal", id |-> "", n |-> c, d |-> Pow(10, k)]

DecInexact == [t |-> "dec_inexact", id |-> "", n |-> 1, d |-> 1]

IsDec(v) == v.t \in {"decimal", "dec_inexact"}

\* the number of fractional digits k of the scale d = 10^k
RECURSIVE DecDigits(_)
DecDigits(d) == IF d <= 1 THEN 0 ELSE 1 + DecDigits(d \div 10)

\* the exponent j of d = 2^j, or -1 when d is no power of two
RECURSIVE Log2(_)
Log2(d) ==
    IF d = 1 THEN 0
    ELSE IF d % 2 # 0 THEN -1
    ELSE LET j == Log2(d \div 2) IN IF j < 0 THEN -1 ELSE j + 1

\* the most fractional digits the model writes a Decimal with
DecScaleLimit == 6

\* Decimal(*args): no argument is 0, an int or a Decimal is taken as it is, a
\* float gives its exact binary value, a second argument must be a context
Decimal(args) ==
    IF args = <<>> THEN Dec(0, 0)
    ELSE IF Len(args) > 1 THEN Err("TypeError")
    ELSE LET x == args[1]
         IN CASE x.t = "int" -> Dec(x.n, 0)
              [] IsDec(x) -> x
              [] x.t = "inexact" -> DecInexact
              [] x.t = "float" ->
                     IF Log2(x.d) >= 0 /\ Log2(x.d) <= DecScaleLimit
                     THEN Dec(x.n * Pow(5, Log2(x.d)), Log2(x.d))
                     ELSE DecInexact
              [] OTHER -> Err("TypeError")

\* n \div d rounded toward zero
TruncDiv(n, d) ==
    (IF (n < 0) = (d < 0) THEN 1 ELSE -1) * (Abs(n) \div Abs(d))

\* the exact quotient ca / cb written with the fewest fractional digits that
\* is at least ideal, or an untracked Decimal when it needs more than
\* DecScaleLimit digits
DecQuot(ca, cb, ideal) ==
    LET ks == {k \in Max(ideal, 0)..DecScaleLimit : (Abs(ca) * Pow(10, k)) % Abs(cb) = 0}
    IN IF ks = {} THEN DecInexact
       ELSE LET k == CHOOSE x \in ks : \A y \in ks : x <= y
            IN Dec(TruncDiv(ca * Pow(10, k), cb), k)

\* a op b when one of the operands is a Decimal: the other must be an int or a
\* Decimal.  A zero divisor raises decimal.DivisionByZero (a
\* ZeroDivisionError) for a non-zero dividend of / and //, and
\* decimal.DivisionUndefined or decimal.InvalidOperation (ArithmeticErrors
\* that are no ZeroDivisionError) for a zero dividend and for %
DecBinOp(op, a, b) ==
    IF ~(IsDec(a) \/ a.t = "int") \/ ~(IsDec(b) \/ b.t = "int") THEN Err("TypeError")
    ELSE IF op \in {"/", "//", "%"} /\ b.n = 0
         THEN IF a.n = 0 THEN Err("DivisionUndefined")
              ELSE IF op = "%" THEN Err("InvalidOperation")
              ELSE Err("ZeroDivisionError")
    ELSE IF op = "**" /\ a.n = 0 /\ b.n = 0 THEN Err("InvalidOperation")
    ELSE IF a.t = "dec_inexact" \/ b.t = "dec_inexact" THEN DecInexact
    ELSE LET ka == DecDigits(a.d)
             kb == DecDigits(b.d)
             k == Max(ka, kb)
             ca == a.n * Pow(10, k - ka)
             cb == b.n * Pow(10, k - kb)
         IN CASE op = "+" -> Dec(ca + cb, k)
              [] op = "-" -> Dec(ca - cb, k)
              [] op = "*" -> Dec(a.n * b.n, ka + kb)
              [] op = "/" -> DecQuot(ca, cb, ka - kb)
              [] op = "//" -> Dec(TruncDiv(ca, cb), 0)
              [] op = "%" -> Dec(ca - cb * TruncDiv(ca, cb), k)
              [] op = "**" -> IF b.d = 1 /\ b.n >= 0 THEN Dec(Pow(a.n, b.n), ka * b.n)
                              ELSE DecInexact

Neg(v) ==
    IF IsErr(v) THEN v
    ELSE IF v.t \in {"inexact", "dec_inexact"} THEN v
    ELSE IF v.t = "decimal" THEN [v EXCEPT !.n = -v.n]
    ELSE IF IsNum(v) THEN Rat(v.t, -v.n, v.d)
    ELSE Err("TypeError")

FloorDiv(n, d) == n \div d

IsSquare(n) == \E r \in 0..n : r * r = n

Sqrt(n) == CHOOSE r \in 0..n : r * r = n

IsPow10(n, d) == d = 1 /\ n \in {1, 10, 100, 1000}

Log10(n) == CASE n = 1 -> 0 [] n = 10 -> 1 [] n = 100 -> 2 [] n = 1000 -> 3

BinOp(op, a, b) ==
    IF IsErr(a) THEN a
    ELSE IF IsErr(b) THEN b
    ELSE IF (IsDec(a) /\ b.t # "obj") \/ (IsDec(b) /\ a.t # "obj") THEN DecBinOp(op, a, b)
    ELSE IF ~IsNumeric(a) \/ ~IsNumeric(b) THEN Err("TypeError")
    ELSE LET exact == IsNum(a) /\ IsNum(b)
             ty == IF a.t = "int" /\ b.t = "int" THEN "int" ELSE "float"
             bzero == IsNum(b) /\ b.n = 0
         IN CASE op = "+" -> IF exact THEN Rat(ty, a.n * b.d + b.n * a.d, a.d * b.d)
                             ELSE Inexact
              [] op = "-" -> IF exact THEN Rat(ty, a.n * b.d - b.n * a.d, a.d * b.d)
                             ELSE Inexact
              [] op = "*" -> IF exact THEN RatMul(ty, a.n, a.d, b.n, b.d) ELSE Inexact
              [] op = "/" -> IF bzero THEN Err("ZeroDivisionError")
                             ELSE IF exact THEN RatMul("float", a.n, a.d, b.d, b.n)
                             ELSE Inexact
              [] op = "//" -> IF bzero THEN Err("ZeroDivisionError")
                              ELSE IF exact
                                   THEN Rat(ty, FloorDiv(a.n * b.d * (IF b.n < 0 THEN -1 ELSE 1),
                                                         a.d * Abs(b.n)), 1)
                              ELSE Inexact
              [] op = "%" -> IF bzero THEN Err("ZeroDivisionError")
                             ELSE IF exact
                                  THEN LET q == FloorDiv(a.n * b.d * (IF b.n < 0 THEN -1 ELSE 1),
                                                         a.d * Abs(b.n))
                                       IN Rat(ty, a.n * b.d - q * b.n * a.d, a.d * b.d)
                             ELSE Inexact
              [] op = "**" -> IF exact /\ b.d = 1 /\ b.n >= 0
                              THEN Rat(ty, Pow(a.n, b.n), Pow(a.d, b.n))
                              ELSE IF exact /\ b.d = 1 /\ a.n = 0
                                   THEN Err("ZeroDivisionError")
                              ELSE IF exact /\ b.d = 1
                                   THEN Rat("float", Pow(a.d, -b.n), Pow(a.n, -b.n))
                              ELSE Inexact

\* an int, a float or a Decimal
IsValue(v) == IsNumeric(v) \/ IsDec(v)

\* float(v), the conversion the functions of math apply to their argument
ToFloat(v) ==
    IF v.t = "decimal" THEN FloatV(v.n, v.d)
    ELSE IF v.t = "dec_inexact" THEN Inexact
    ELSE v

\* f(*args)
Call(f, args) ==
    IF IsErr(f) THEN f
    ELSE IF \E k \in 1..Len(args) : IsErr(args[k])
         THEN args[CHOOSE k \in 1..Len(args) :
                       IsErr(args[k]) /\ \A j \in 1..k - 1 : ~IsErr(args[j])]
    ELSE IF f.t # "obj" \/ f.id \in {"math", "builtins"} THEN Err("TypeError")
    ELSE IF f.id = "exit" THEN Err("SystemExit")
    ELSE IF f.id \in {"open", "eval", "exec", "sum"} THEN Err("TypeError")
    ELSE IF f.id = "Decimal" THEN Decimal(args)
    ELSE IF f.id \in {"min", "max"}
         THEN IF Len(args) < 2 \/ \E k \in 1..Len(args) : ~IsValue(args[k])
              THEN Err("TypeError")
              ELSE IF \E k \in 1..Len(args) : args[k].t = "inexact" THEN Inexact
              ELSE IF \E k \in 1..Len(args) : args[k].t = "dec_inexact" THEN DecInexact
              ELSE args[CHOOSE k \in 1..Len(args) : \A j \in 1..Len(args) :
                            /\ IF f.id = "min"
                               THEN args[k].n * args[j].d <= args[j].n * args[k].d
                               ELSE args[k].n * args[j].d >= args[j].n * args[k].d
                            /\ (j < k =>
                                  args[k].n * args[j].d # args[j].n * args[k].d)]
    ELSE IF f.id = "round" /\ Len(args) = 2
         THEN IF ~IsValue(args[1]) \/ args[2].t # "int" THEN Err("TypeError")
              ELSE IF args[1].t = "decimal" /\ args[2].n >= 0
                   THEN Dec(RoundScaled(args[1].n, args[1].d, args[2].n), args[2].n)
              ELSE IF IsDec(args[1]) THEN DecInexact
              ELSE IF IsNum(args[1]) /\ args[2].n >= 0
                   THEN Rat(args[1].t, RoundScaled(args[1].n, args[1].d, args[2].n),
                            Pow(10, args[2].n))
              ELSE Inexact
    ELSE IF Len(args) # 1 \/ ~IsValue(args[1]) THEN Err("TypeError")
    ELSE LET x == IF f.id \in MathFunctions THEN ToFloat(args[1]) ELSE args[1]
         IN CASE f.id = "abs" -> IF IsNum(x) THEN Rat(x.t, Abs(x.n), x.d)
                                 ELSE IF x.t = "decimal" THEN [x EXCEPT !.n = Abs(x.n)]
                                 ELSE x
              [] f.id = "round" -> IF IsNum(x) \/ x.t = "decimal"
                                   THEN IntV(RoundScaled(x.n, x.d, 0))
                                   ELSE x
              [] f.id = "sqrt" -> IF IsNum(x) /\ x.n < 0 THEN Err("ValueError")
                                  ELSE IF IsNum(x) /\ IsSquare(x.n) /\ IsSquare(x.d)
                                       THEN Rat("float", Sqrt(x.n), Sqrt(x.d))
                                  ELSE Inexact
              [] f.id \in {"sin", "tan"} -> IF IsNum(x) /\ x.n = 0 THEN FloatV(0, 1)
                                            ELSE Inexact
              [] f.id \in {"cos", "exp"} -> IF IsNum(x) /\ x.n = 0 THEN FloatV(1, 1)
                                            ELSE Inexact
              [] f.id = "log10" -> IF IsNum(x) /\ x.n <= 0 THEN Err("ValueError")
                                   ELSE IF IsNum(x) /\ IsPow10(x.n, x.d)
                                        THEN FloatV(Log10(x.n), 1)
                                   ELSE Inexact
              [] f.id = "log" -> IF IsNum(x) /\ x.n <= 0 THEN Err("ValueError")
                                 ELSE IF IsNum(x) /\ x.n = x.d THEN FloatV(0, 1)
                                 ELSE Inexact

(***************************************************************************)
(* The parser/evaluator.  Parse reads the tokens e from                    *)
(* position i and returns [ok, v, i]: ok = FALSE is a SyntaxError, v the   *)
(* value (or the raised exception) and i the next position.                *)
(***************************************************************************)
IsNumberTok(t) == t \in Digits

IsNameTok(t) == (IsAlpha(t) \/ t \in {"log10", "Decimal"}) /\ t # "import"

PR(ok, v, i) == [ok |-> ok, v |-> v, i |-> i]

SyntaxErr == PR(FALSE, Err("SyntaxError"), 0)

TokAt(e, i) == IF i <= Len(e) THEN e[i] ELSE "<eof>"

\* int(token)
RECURSIVE DigitsVal(_, _)
DigitsVal(n, acc) ==
    CASE n = "0" -> 0 [] n = "1" -> 1 [] n = "2" -> 2 [] n = "3" -> 3
      [] n = "4" -> 4 [] n = "5" -> 5 [] n = "9" -> 9 [] n = "10" -> 10
      [] n = "16" -> 16 [] n = "32" -> 32 [] n = "100" -> 100 [] n = "212" -> 212
      [] n = "15" -> 15 [] n = "40" -> 40

NumVal(t) == DigitsVal(t, 0)

\* the number literal at position i
Literal(e, i) ==
    IF TokAt(e, i + 1) = "." /\ IsNumberTok(TokAt(e, i + 2))
    THEN PR(TRUE, FloatV(NumVal(e[i]) * Pow(10, TokLen(e[i + 2])) + NumVal(e[i + 2]),
                         Pow(10, TokLen(e[i + 2]))), i + 3)
    ELSE IF IsNumberTok(TokAt(e, i + 1)) THEN SyntaxErr
    ELSE PR(TRUE, IntV(NumVal(e[i])), i + 1)

\* the attribute name after the "." at position i
AttrRef(e, i) ==
    IF TokAt(e, i + 1) = "__" /\ IsNameTok(TokAt(e, i + 2)) /\ TokAt(e, i + 3) = "__"
    THEN PR(TRUE, IF e[i + 2] = "self" THEN "__self__" ELSE "__other__", i + 4)
    ELSE IF IsNameTok(TokAt(e, i + 1)) THEN PR(TRUE, e[i + 1], i + 2)
    ELSE SyntaxErr

\* Parse(rule, e, i, l): the grammar of Python expressions, by precedence
\*   sum     term (("+" | "-") term)*
\*   term    unary (("*" | "/" | "//" | "%") unary)*
\*   unary   ("-" | "+") unary | power
\*   power   postfix ["**" unary]
\*   postfix atom ("." name | "(" args ")")*
\*   atom    number | name | "(" sum ")"
\* read from position i; l is the operand read so far (for the rules that
\* continue one) or the list of the arguments read so far (for "args")
RECURSIVE Parse(_, _, _, _)
Parse(rule, e, i, l) ==
    LET t == TokAt(e, i)
    IN CASE rule = "sum" ->
                LET x == Parse("term", e, i, l)
                IN IF ~x.ok THEN SyntaxErr ELSE Parse("sumrest", e, x.i, x.v)
         [] rule = "sumrest" ->
                IF t \in {"+", "-"}
                THEN LET r == Parse("term", e, i + 1, l)
                     IN IF ~r.ok THEN SyntaxErr
                        ELSE Parse("sumrest", e, r.i, BinOp(t, l, r.v))
                ELSE PR(TRUE, l, i)
         [] rule = "term" ->
                LET x == Parse("unary", e, i, l)
                IN IF ~x.ok THEN SyntaxErr ELSE Parse("termrest", e, x.i, x.v)
         [] rule = "termrest" ->
                IF t \in {"*", "/", "//", "%"}
                THEN LET r == Parse("unary", e, i + 1, l)
                     IN IF ~r.ok THEN SyntaxErr
                        ELSE Parse("termrest", e, r.i, BinOp(t, l, r.v))
                ELSE PR(TRUE, l, i)
         [] rule = "unary" ->
                IF t = "-"
                THEN LET r == Parse("unary", e, i + 1, l)
                     IN IF ~r.ok THEN SyntaxErr ELSE PR(TRUE, Neg(r.v), r.i)
                ELSE IF t = "+" THEN Parse("unary", e, i + 1, l)
                ELSE Parse("power", e, i, l)
         [] rule = "power" ->
                LET b == Parse("postfix", e, i, l)
                IN IF ~b.ok THEN SyntaxErr
                   ELSE IF TokAt(e, b.i) = "**"
                        THEN LET x == Parse("unary", e, b.i + 1, l)
                             IN IF ~x.ok THEN SyntaxErr
                                ELSE PR(TRUE, BinOp("**", b.v, x.v), x.i)
                   ELSE b
         [] rule = "postfix" ->
                LET a == Parse("atom", e, i, l)
                IN IF ~a.ok THEN SyntaxErr ELSE Parse("postfixrest", e, a.i, a.v)
         [] rule = "postfixrest" ->
                IF t = "."
                THEN LET r == AttrRef(e, i)
                     IN IF ~r.ok THEN SyntaxErr
                        ELSE Parse("postfixrest", e, r.i, GetAttr(l, r.v))
                ELSE IF t = "("
                     THEN LET as == IF TokAt(e, i + 1) = ")" THEN PR(TRUE, <<>>, i + 2)
                                    ELSE Parse("args", e, i + 1, <<>>)
                          IN IF ~as.ok THEN SyntaxErr
                             ELSE Parse("postfixrest", e, as.i, Call(l, as.v))
                ELSE PR(TRUE, l, i)
         [] rule = "args" ->
                LET x == Parse("sum", e, i, l)
                IN IF ~x.ok THEN SyntaxErr
                   ELSE IF TokAt(e, x.i) = "," THEN Parse("args", e, x.i + 1, Append(l, x.v))
                   ELSE IF TokAt(e, x.i) = ")" THEN PR(TRUE, Append(l, x.v), x.i + 1)
                   ELSE SyntaxErr
         [] rule = "atom" ->
                IF IsNumberTok(t) THEN Literal(e, i)
                ELSE IF IsNameTok(t) THEN PR(TRUE, safe_dict(t), i + 1)
                ELSE IF t = "("
                     THEN LET x == Parse("sum", e, i + 1, l)
                          IN IF x.ok /\ TokAt(e, x.i) = ")" THEN PR(TRUE, x.v, x.i + 1)
                             ELSE SyntaxErr
                ELSE SyntaxErr

\* eval(expr, safe_dict): blanks between tokens are not significant
Eval(expr) ==
    LET e == SelectSeq(expr, LAMBDA t : ~IsSpace(t))
        r == Parse("sum", e, 1, IntV(0))
    IN IF r.ok /\ r.i = Len(e) + 1 THEN r.v ELSE Err("SyntaxError")

\* the formatting step of _evaluate_math: a float that is integral becomes
\* an int, any other float is rounded to 6 digits
evaluate_math_format(v) ==
    IF v.t = "float" /\ v.d = 1 THEN IntV(v.n)
    ELSE IF v.t = "float" THEN LET m == RoundScaled(v.n, v.d, 6)
                               IN Rat("float", m, Pow(10, 6))
    ELSE v

evaluate_math(expr) == evaluate_math_format(Eval(expr))

\* str(result)
ValueStr(v) ==
    CASE v.t = "int" -> IntStr(v.n)
      [] v.t = "float" -> FloatStr(v.n, v.d)
      [] v.t = "inexact" -> <<"<float>">>
      [] v.t = "decimal" -> IF v.d = 1 THEN IntStr(v.n)
                            ELSE (IF v.n < 0 THEN <<"-">> ELSE <<>>)
                                 \o NatStr(Abs(v.n) \div v.d) \o <<".">>
                                 \o PadStr(Abs(v.n) % v.d, DecDigits(v.d))
      [] v.t = "dec_inexact" -> <<"<decimal>">>
      [] v.t = "obj" -> <<"<object>">>
      [] OTHER -> <<"<exception>">>

(***************************************************************************)
(* Python floats in the conversion path: IEEE 754 binary64, every          *)
(* operation rounded to the nearest value, ties to even.  A natural number *)
(* of any size is the sequence of its limbs in base Radix, least           *)
(* significant first, without a leading zero limb (zero is <<>>).  A float *)
(* is [s, m, e], the number s * m * 2^e with s = 1 or -1 and m a natural   *)
(* of exactly MantissaBits bits (zero is m = <<>>); the values of the      *)
(* model stay in the normal range, and -0.0 does not occur.                *)
(***************************************************************************)
Radix == 2 ^ 15

Tail0(a) == IF a = <<>> THEN <<>> ELSE Tail(a)

Limb(a, i) == IF i <= Len(a) THEN a[i] ELSE 0

RECURSIVE NNorm(_)
NNorm(a) == IF a # <<>> /\ a[Len(a)] = 0 THEN NNorm(SubSeq(a, 1, Len(a) - 1)) ELSE a

RECURSIVE NFromInt(_)
NFromInt(n) == IF n = 0 THEN <<>> ELSE <<n % Radix>> \o NFromInt(n \div Radix)

\* a + b + c, c a carry
RECURSIVE NAddC(_, _, _)
NAddC(a, b, c) ==
    IF a = <<>> /\ b = <<>> THEN NFromInt(c)
    ELSE LET x == Limb(a, 1) + Limb(b, 1) + c
         IN <<x % Radix>> \o NAddC(Tail0(a), Tail0(b), x \div Radix)

\* a - b - c for a >= b + c, c a borrow
RECURSIVE NSubB(_, _, _)
NSubB(a, b, c) ==
    IF a = <<>> THEN <<>>
    ELSE LET x == a[1] - Limb(b, 1) - c
         IN <<(x + Radix) % Radix>> \o NSubB(Tail(a), Tail0(b), IF x < 0 THEN 1 ELSE 0)

NSub(a, b) == NNorm(NSubB(a, b, 0))

NLess(a, b) ==
    \/ Len(a) < Len(b)
    \/ /\ Len(a) = Len(b)
       /\ \E i \in 1..Len(a) : a[i] < b[i] /\ \A j \in i + 1..Len(a) : a[j] = b[j]

\* a * k + c for a limb k
RECURSIVE NMulC(_, _, _)
NMulC(a, k, c) ==
    IF a = <<>> THEN NFromInt(c)
    ELSE LET x == a[1] * k + c
         IN <<x % Radix>> \o NMulC(Tail(a), k, x \div Radix)

NMulSmall(a, k) == NNorm(NMulC(a, k, 0))

\* a * Radix^n
NShiftLimbs(a, n) == IF a = <<>> THEN <<>> ELSE Rep(0, n) \o a

RECURSIVE NMul(_, _)
NMul(a, b) ==
    IF a = <<>> \/ b = <<>> THEN <<>>
    ELSE NAddC(NMulSmall(a, b[1]), NShiftLimbs(NMul(a, Tail(b)), 1), 0)

RECURSIVE BitLen(_)
BitLen(n) == IF n = 0 THEN 0 ELSE 1 + BitLen(n \div 2)

\* the number of bits of a
NBitLen(a) == IF a = <<>> THEN 0 ELSE 15 * (Len(a) - 1) + BitLen(a[Len(a)])

\* a * 2^s
NShl(a, s) == NShiftLimbs(NMulSmall(a, 2 ^ (s % 15)), s \div 15)

\* quotient and remainder of a by a limb k > 0
RECURSIVE NDivSmall(_, _)
NDivSmall(a, k) ==
    IF a = <<>> THEN [q |-> <<>>, r |-> 0]
    ELSE LET hi == NDivSmall(Tail(a), k)
             x == hi.r * Radix + a[1]
         IN [q |-> IF hi.q = <<>> /\ x \div k = 0 THEN <<>> ELSE <<x \div k>> \o hi.q,
             r |-> x % k]

\* a \div 2^s
NShr(a, s) ==
    IF s \div 15 >= Len(a) THEN <<>>
    ELSE NDivSmall(SubSeq(a, s \div 15 + 1, Len(a)), 2 ^ (s % 15)).q

\* the largest d in lo..hi-1 with b * d <= x, found by bisection
RECURSIVE QuotDigit(_, _, _, _)
QuotDigit(x, b, lo, hi) ==
    IF hi - lo = 1 THEN lo
    ELSE LET mid == (lo + hi) \div 2
         IN IF NLess(x, NMulSmall(b, mid)) THEN QuotDigit(x, b, lo, mid)
            ELSE QuotDigit(x, b, mid, hi)

\* quotient and remainder of a by b > 0: long division, one limb of the
\* quotient at a time from the most significant limb of a
RECURSIVE NDivMod(_, _)
NDivMod(a, b) ==
    IF a = <<>> THEN [q |-> <<>>, r |-> <<>>]
    ELSE LET hi == NDivMod(Tail(a), b)
             x == IF hi.r = <<>> /\ a[1] = 0 THEN <<>> ELSE <<a[1]>> \o hi.r
             d == QuotDigit(x, b, 0, Radix)
         IN [q |-> IF hi.q = <<>> /\ d = 0 THEN <<>> ELSE <<d>> \o hi.q,
             r |-> NSub(x, NMulSmall(b, d))]

RECURSIVE NPow10(_)
NPow10(k) == IF k = 0 THEN <<1>> ELSE NMulSmall(NPow10(k - 1), 10)

\* the decimal digits of a
RECURSIVE NStr(_)
NStr(a) ==
    IF a = <<>> THEN <<>>
    ELSE LET d == NDivSmall(a, 10) IN NStr(d.q) \o <<Digit(d.r)>>

\* the bits of the significand of a float
MantissaBits == 53

DZero == [s |-> 1, m |-> <<>>, e |-> 0]

\* the float s * m * 2^e for a significand m of MantissaBits bits, or of
\* one bit more when the rounding carried (m is then a power of two)
Normal(s, m, e) ==
    IF NBitLen(m) > MantissaBits THEN [s |-> s, m |-> NShr(m, 1), e |-> e + 1]
    ELSE [s |-> s, m |-> m, e |-> e]

\* m0 are the leading MantissaBits bits of the quotient, low the bits cut
\* off, half the weight of the first of them, sticky whether the division
\* left a remainder: round to nearest, a tie to the even significand
RoundTie(s, m0, low, half, sticky, e) ==
    Normal(s,
           IF low > half \/ (low = half /\ (sticky \/ Limb(m0, 1) % 2 = 1))
           THEN NAddC(m0, <<>>, 1) ELSE m0,
           e)

\* qr is a quotient of MantissaBits + k bits with its remainder
RoundBits(s, qr, k, e) ==
    RoundTie(s, NShr(qr.q, k), Limb(qr.q, 1) % (2 ^ k), 2 ^ (k - 1), qr.r # <<>>, e + k)

\* the quotient of N * 2^t by D has two or three bits more than the
\* significand holds
RoundQuotient(s, qr, e) == RoundBits(s, qr, NBitLen(qr.q) - MantissaBits, e)

RoundShifted(s, N, D, e0, t) ==
    RoundQuotient(s, NDivMod(IF t >= 0 THEN NShl(N, t) ELSE N,
                             IF t >= 0 THEN D ELSE NShl(D, -t)), e0 - t)

\* the float nearest to s * (N / D) * 2^e0, ties to even
RoundRat(s, N, D, e0) ==
    IF N = <<>> THEN DZero
    ELSE RoundShifted(s, N, D, e0, MantissaBits + 2 - (NBitLen(N) - NBitLen(D)))

\* float(text) of the decimal n / d, and the value of a float literal
DFromRat(n, d) == RoundRat(IF n < 0 THEN -1 ELSE 1, NFromInt(Abs(n)), NFromInt(d), 0)

DNeg(x) == IF x.m = <<>> THEN x ELSE [x EXCEPT !.s = -x.s]

\* the sum of sx * X * 2^e and sy * Y * 2^e
AddAligned(sx, X, sy, Y, e) ==
    RoundRat(IF sx = sy \/ ~NLess(X, Y) THEN sx ELSE sy,
             IF sx = sy THEN NAddC(X, Y, 0)
             ELSE IF NLess(X, Y) THEN NSub(Y, X) ELSE NSub(X, Y),
             <<1>>, e)

\* x + y
DAdd(x, y) ==
    IF x.m = <<>> THEN y
    ELSE IF y.m = <<>> THEN x
    ELSE AddAligned(x.s, NShl(x.m, x.e - Min(x.e, y.e)),
                    y.s, NShl(y.m, y.e - Min(x.e, y.e)), Min(x.e, y.e))

\* x - y
DSub(x, y) == DAdd(x, DNeg(y))

\* x * y
DMul(x, y) == RoundRat(x.s * y.s, NMul(x.m, y.m), <<1>>, x.e + y.e)

\* x / y for y # 0
DDiv(x, y) == RoundRat(x.s * y.s, x.m, y.m, x.e - y.e)

\* P \div 2^n rounded to the nearest integer, ties to even; q is P \div 2^n
RoundShr(P, q, n) ==
    LET rem == NSub(P, NShl(q, n))
    IN IF NLess(NShl(<<1>>, n - 1), rem)
          \/ (rem = NShl(<<1>>, n - 1) /\ Limb(q, 1) % 2 = 1)
       THEN NAddC(q, <<>>, 1) ELSE q

\* P * 2^e rounded to the nearest integer
ScaledInt(P, e) == IF e >= 0 THEN NShl(P, e) ELSE RoundShr(P, NShr(P, -e), -e)

\* |x| * 10^k rounded to the nearest integer, ties to even
DScaled(x, k) == ScaledInt(NMul(x.m, NPow10(k)), x.e)

\* the digits ds written with k fractional digits
PlaceDot(ds, k) ==
    SubSeq(ds, 1, Len(ds) - k)
    \o (IF k = 0 THEN <<>> ELSE <<".">> \o SubSeq(ds, Len(ds) - k + 1, Len(ds)))

PadZeros(ds, n) == Rep("0", Max(n - Len(ds), 0)) \o ds

\* the natural c / 10^k written with k fractional digits
NFixed(c, k) == PlaceDot(PadZeros(NStr(c), k + 1), k)

\* format(x, ".kf")
DFormat(x, k) == (IF x.s < 0 THEN <<"-">> ELSE <<>>) \o NFixed(DScaled(x, k), k)

\* the most fractional digits repr() writes for the values of the model
ReprDigits == 20

\* the decimal of k fractional digits nearest to x reads back as x
RoundTrips(x, k) == RoundRat(x.s, DScaled(x, k), NPow10(k), 0) = x

\* the least number of fractional digits that reads back as x
RECURSIVE ReprScale(_, _)
ReprScale(x, k) == IF k >= ReprDigits \/ RoundTrips(x, k) THEN k ELSE ReprScale(x, k + 1)

\* |x| < 1e-4 or |x| >= 1e16, where repr() uses the exponent notation
ExponentNotation(x) ==
    /\ x.m # <<>>
    /\ \/ x.e < 0 /\ NShr(NMul(x.m, NPow10(4)), -x.e) = <<>>
       \/ x.e >= 0 /\ ~NLess(NShl(x.m, x.e), NPow10(16))

\* x written with k fractional digits, at least one
ReprFixed(x, k) ==
    (IF x.s < 0 THEN <<"-">> ELSE <<>>)
    \o NFixed(DScaled(x, k), k) \o (IF k = 0 THEN <<".", "0">> ELSE <<>>)

\* repr(x), which is str(x): the shortest decimal that reads back as x
DRepr(x) ==
    IF ExponentNotation(x) THEN <<"<exponent notation>">>
    ELSE ReprFixed(x, ReprScale(x, 0))

(***************************************************************************)
(* tools/calculator_tool.py: _convert_units and _convert_temperature.      *)
(***************************************************************************)
\* self.units, the linear categories in dict order; factors as n/d
UnitsLength ==
    [m |-> <<1, 1>>, km |-> <<1000, 1>>, cm |-> <<1, 100>>, mm |-> <<1, 1000>>,
     inch |-> <<254, 10000>>, ft |-> <<3048, 10000>>, mile |-> <<1609344, 1000>>]

UnitsWeight ==
    [kg |-> <<1, 1>>, g |-> <<1, 1000>>, mg |-> <<1, 1000000>>,
     lb |-> <<453592, 1000000>>, oz |-> <<283495, 10000000>>]

UnitsTemperature == {"c", "f", "k"}

\* the "to" substrings of the lower-cased text: a token "to", a token that
\* contains "to" ("total", "ton"), or a token ending in "t" followed by one
\* beginning with "o" ("import" "os")
ToAt(e, i) ==
    \/ e[i] \in {"to", "total", "ton"}
    \/ i < Len(e) /\ e[i] \in {"import", "sqrt", "ft", "exit"}
                  /\ e[i + 1] \in {"os", "open", "oz"}

ToPositions(e) == {i \in 1..Len(e) : ToAt(e, i)}

ContainsTo(expr) == ToPositions(LowerSeq(expr)) # {}

\* s.split('to') when there is exactly one "to", at position i: the text
\* before and after it; a token cut by the split leaves a fragment
SplitTo(e, i) ==
    IF e[i] = "to" THEN <<SubSeq(e, 1, i - 1), SubSeq(e, i + 1, Len(e))>>
    ELSE IF e[i] \in {"total", "ton"} THEN <<SubSeq(e, 1, i - 1), <<"<frag>">> \o SubSeq(e, i + 1, Len(e))>>
    ELSE <<SubSeq(e, 1, i - 1) \o <<"<frag>">>, <<"<frag>">> \o SubSeq(e, i + 2, Len(e))>>

IsNumChar(t) == t \in Digits \/ t = "."

IsLetters(t) == IsAlpha(t) \/ t = "<frag>"

\* length of the longest prefix of s whose tokens satisfy P
RunLen(s, P(_)) == Cardinality({k \in 1..Len(s) : \A i \in 1..k : P(s[i])})

\* float(text) of a run of digits and dots: [ok, n, d]
RECURSIVE ConcatVal(_, _)
ConcatVal(s, acc) ==
    IF s = <<>> THEN acc
    ELSE ConcatVal(Tail(s), acc * Pow(10, TokLen(Head(s))) + NumVal(Head(s)))

ParseFloat(run) ==
    LET dots == {i \in 1..Len(run) : run[i] = "."}
    IN IF Cardinality(dots) > 1 \/ Len(run) = Cardinality(dots)
       THEN [ok |-> FALSE, n |-> 0, d |-> 1]
       ELSE IF dots = {}
            THEN [ok |-> TRUE, n |-> ConcatVal(run, 0), d |-> 1]
       ELSE LET p == CHOOSE i \in dots : TRUE
                ip == SubSeq(run, 1, p - 1)
                fp == SubSeq(run, p + 1, Len(run))
                sc == Pow(10, TextLen(fp))
            IN [ok |-> TRUE, n |-> ConcatVal(ip, 0) * sc + ConcatVal(fp, 0), d |-> sc]

\* str(x) of a float: the exact decimal when it has at most 6 digits,
\* otherwise its first digits followed by "<more digits>"
FloatRepr(v) ==
    IF v.t = "inexact" THEN <<"<float>">>
    ELSE IF Pow(10, 6) % v.d = 0 THEN FloatStr(v.n, v.d)
    ELSE FloatStr(v.n, v.d) \o <<"<more digits>">>

\* the floats are combined in the order Python evaluates the expressions:
\* (value - 32) * 5/9 is ((value - 32) * 5) / 9
to_celsius(value, from_unit) ==
    CASE from_unit = "c" -> value
      [] from_unit = "f" ->
             DDiv(DMul(DSub(value, DFromRat(32, 1)), DFromRat(5, 1)), DFromRat(9, 1))
      [] from_unit = "k" -> DSub(value, DFromRat(27315, 100))

\* celsius * 9/5 + 32 is ((celsius * 9) / 5) + 32
from_celsius(celsius, to_unit) ==
    CASE to_unit = "c" -> celsius
      [] to_unit = "f" ->
             DAdd(DDiv(DMul(celsius, DFromRat(9, 1)), DFromRat(5, 1)), DFromRat(32, 1))
      [] to_unit = "k" -> DAdd(celsius, DFromRat(27315, 100))

convert_temperature(value, from_unit, to_unit) ==
    from_celsius(to_celsius(value, from_unit), to_unit)

\* the category holding both units, in dict order, or "" when there is none
UnitCategory(from_unit, to_unit) ==
    IF from_unit \in DOMAIN UnitsLength /\ to_unit \in DOMAIN UnitsLength THEN "length"
    ELSE IF from_unit \in DOMAIN UnitsWeight /\ to_unit \in DOMAIN UnitsWeight THEN "weight"
    ELSE IF from_unit \in UnitsTemperature /\ to_unit \in UnitsTemperature THEN "temperature"
    ELSE ""

UnitFactor(category, unit) ==
    LET f == IF category = "length" THEN UnitsLength[unit] ELSE UnitsWeight[unit]
    IN DFromRat(f[1], f[2])

\* base_value = value * factor(from); result = base_value / factor(to)
Scale(value, from_factor, to_factor) == DDiv(DMul(value, from_factor), to_factor)

Result(msg, body) == [msg |-> msg, body |-> body]

\* the conversion of the float value; shown is str(value), unsupported the
\* two unit texts of the refusal
convert_value(value, shown, from_unit, to_unit, category, unsupported) ==
    IF from_unit \in UnitsTemperature /\ to_unit \in UnitsTemperature
    THEN Result("temperature_conversion",
                shown \o <<Upper(from_unit), " ", "=", " ">>
                \o DRepr(convert_temperature(value, from_unit, to_unit))
                \o <<Upper(to_unit)>>)
    ELSE IF category = "" THEN Result("unsupported_conversion", unsupported)
    ELSE Result("unit_conversion",
                shown \o <<from_unit, " ", "=", " ">>
                \o DFormat(Scale(value, UnitFactor(category, from_unit),
                                  UnitFactor(category, to_unit)), 4)
                \o <<to_unit>>)

\* value = float(match.group(1)) and the conversion of it
convert_float(value, from_unit, to_unit, unsupported) ==
    convert_value(value, DRepr(value), from_unit, to_unit,
                  UnitCategory(from_unit, to_unit), unsupported)

convert_units(expr) ==
    LET e == LowerSeq(expr)
        tos == ToPositions(e)
    IN IF Cardinality(tos) # 1 THEN Result("conversion_format_error", <<>>)
       ELSE LET parts == SplitTo(e, CHOOSE i \in tos : TRUE)
                from_part == Strip(parts[1])
                to_unit == Strip(parts[2])
                k == RunLen(from_part, IsNumChar)
                rest == LStrip(SubSeq(from_part, k + 1, Len(from_part)))
                u == RunLen(rest, IsLetters)
            IN IF k = 0 \/ u = 0 THEN Result("cannot_parse_value_and_unit", <<>>)
               ELSE LET num == ParseFloat(SubSeq(from_part, 1, k))
                    IN IF ~num.ok THEN Result("unit_conversion_error", <<"<exception text>">>)
                       ELSE convert_float(DFromRat(num.n, num.d),
                                          IF u = 1 THEN rest[1] ELSE "<frag>",
                                          IF Len(to_unit) = 1 THEN to_unit[1] ELSE "<frag>",
                                          SubSeq(rest, 1, u) \o to_unit)

(***************************************************************************)
(* tools/calculator_tool.py: _statistical_analysis.                        *)
(***************************************************************************)
IsDataChar(t) == t \in Digits \/ t \in {".", ",", " ", "\n"}

\* re.search(r'\(\[([\d\.,\s]+)\]\)'): <<first, last>> of group 1 of the
\* leftmost match, or <<0, 0>>
DataMatches(e) ==
    {m \in (1..Len(e)) \X (1..Len(e)) :
        /\ m[1] <= m[2] /\ m[1] >= 3 /\ m[2] + 2 <= Len(e)
        /\ e[m[1] - 2] = "(" /\ e[m[1] - 1] = "["
        /\ e[m[2] + 1] = "]" /\ e[m[2] + 2] = ")"
        /\ \A i \in m[1]..m[2] : IsDataChar(e[i])}

DataMatch(e) ==
    IF DataMatches(e) = {} THEN <<0, 0>>
    ELSE CHOOSE m \in DataMatches(e) : \A o \in DataMatches(e) : m[1] <= o[1]

\* data_str.split(','): the pieces between commas
RECURSIVE SplitComma(_, _)
SplitComma(s, cur) ==
    IF s = <<>> THEN <<cur>>
    ELSE IF Head(s) = "," THEN <<cur>> \o SplitComma(Tail(s), <<>>)
    ELSE SplitComma(Tail(s), Append(cur, Head(s)))

\* float(x.strip())
PieceFloat(piece) ==
    LET x == Strip(piece)
    IN IF x = <<>> \/ \E i \in 1..Len(x) : IsSpace(x[i])
       THEN [ok |-> FALSE, n |-> 0, d |-> 1]
       ELSE ParseFloat(x)

RECURSIVE SumV(_)
SumV(data) == IF data = <<>> THEN FloatV(0, 1) ELSE BinOp("+", Head(data), SumV(Tail(data)))

Less(a, b) == a.n * b.d < b.n * a.d

\* sorted(data)
RECURSIVE SortV(_)
SortV(data) ==
    IF data = <<>> THEN <<>>
    ELSE LET k == CHOOSE i \in 1..Len(data) : \A j \in 1..Len(data) : ~Less(data[j], data[i])
         IN <<data[k]>> \o SortV(SubSeq(data, 1, k - 1) \o SubSeq(data, k + 1, Len(data)))

mean(data) == BinOp("/", SumV(data), IntV(Len(data)))

median(data) ==
    LET sd == SortV(data)
        n == Len(data)
    IN IF n % 2 = 1 THEN sd[(n + 1) \div 2]
       ELSE BinOp("/", BinOp("+", sd[n \div 2], sd[n \div 2 + 1]), IntV(2))

\* sample variance; fewer than two data points raise StatisticsError
variance(data) ==
    IF Len(data) < 2 THEN Err("StatisticsError")
    ELSE LET mu == mean(data)
             sq == [i \in 1..Len(data) |->
                        BinOp("*", BinOp("-", data[i], mu), BinOp("-", data[i], mu))]
         IN BinOp("/", SumV(sq), IntV(Len(data) - 1))

stdev(data) ==
    LET v == variance(data)
    IN IF IsErr(v) THEN v
       ELSE IF IsSquare(v.n) /\ IsSquare(v.d) THEN FloatV(Sqrt(v.n), Sqrt(v.d))
       ELSE Inexact

\* format(result, ".4f")
Format4(v) == IF v.t = "inexact" THEN <<"<float:.4f>">> ELSE FormatF(v.n, v.d, 4)

\* str(data): the list of floats
RECURSIVE DataStr(_)
DataStr(data) ==
    IF data = <<>> THEN <<>>
    ELSE FloatRepr(Head(data)) \o (IF Len(data) > 1 THEN <<",", " ">> ELSE <<>>)
         \o DataStr(Tail(data))

StartsWithCall(expr, fname) == Len(expr) >= 2 /\ expr[1] = fname /\ expr[2] = "("

statistical_analysis(expr) ==
    LET m == DataMatch(expr)
    IN IF m = <<0, 0>> THEN Result("statistics_format_error", <<>>)
       ELSE LET pieces == SplitComma(SubSeq(expr, m[1], m[2]), <<>>)
                parsed == [i \in 1..Len(pieces) |-> PieceFloat(pieces[i])]
                data == [i \in 1..Len(pieces) |-> FloatV(parsed[i].n, parsed[i].d)]
                result == CASE StartsWithCall(expr, "mean") -> mean(data)
                            [] StartsWithCall(expr, "median") -> median(data)
                            [] StartsWithCall(expr, "std") -> stdev(data)
                            [] StartsWithCall(expr, "var") -> variance(data)
                            [] OTHER -> Err("unsupported")
                operation == CASE StartsWithCall(expr, "mean") -> "mean"
                               [] StartsWithCall(expr, "median") -> "median"
                               [] StartsWithCall(expr, "std") -> "stdev"
                               [] StartsWithCall(expr, "var") -> "variance"
                               [] OTHER -> "unsupported_statistic"
            IN IF \E i \in 1..Len(parsed) : ~parsed[i].ok
               THEN Result("statistics_error", <<"<exception text>">>)
               ELSE IF operation = "unsupported_statistic"
                    THEN Result("unsupported_statistic", <<>>)
               ELSE IF IsErr(result) THEN Result("statistics_error", <<"<exception text>">>)
               ELSE Result(operation,
                        Format4(result) \o <<" ", "(">> \o DataStr(data) \o <<")">>)

(***************************************************************************)
(* tools/calculator_tool.py: execute.  The outcome is                      *)
(* [raised, result, evalReached]: raised = TRUE when an exception leaves   *)
(* execute (only "except Exception" handlers guard it, and SystemExit is   *)
(* not an Exception).                                                      *)
(***************************************************************************)
Outcome(raised, result, evalReached) ==
    [raised |-> raised, result |-> result, evalReached |-> evalReached]

Calculator_execute(expression) ==
    LET expr == preprocess_expression(expression)
    IN IF ContainsTo(expr) THEN Outcome(FALSE, convert_units(expr), FALSE)
       ELSE IF \E fn \in {"mean", "median", "std", "var"} : StartsWithCall(expr, fn)
            THEN Outcome(FALSE, statistical_analysis(expr), FALSE)
       ELSE LET v == evaluate_math(expr)
            IN IF ~IsErr(v) THEN Outcome(FALSE, Result("calculation_result", ValueStr(v)), TRUE)
               ELSE IF v.id = "ZeroDivisionError"
                    THEN Outcome(FALSE, Result("division_by_zero", <<>>), TRUE)
               ELSE IF v.id = "ValueError"
                    THEN Outcome(FALSE, Result("input_error", <<"<exception text>">>), TRUE)
               ELSE IF v.id = "SystemExit" THEN Outcome(TRUE, NoResult, TRUE)
               ELSE Outcome(FALSE, Result("calculation_error", <<"<exception text>">>), TRUE)

(***************************************************************************)
(* tools/__init__.py: BaseTool.__call__.  accepted is the value of         *)
(* validate_input(kwargs), outcome the outcome of execute with the same    *)
(* arguments.                                                              *)
(* An Exception raised by execute becomes the "execution failed" string;   *)
(* anything that is not an Exception (SystemExit) leaves __call__.         *)
(***************************************************************************)
BaseTool_call(accepted, outcome) ==
    IF accepted THEN outcome
    ELSE Outcome(FALSE, Result("validation_failed", <<>>), FALSE)

(***************************************************************************)
(* The filesystem.  A path is a sequence of names from the root "/"; fs    *)
(* maps each existing path to its entry:                                   *)
(*   kind    "dir" | "file" | "link"                                       *)
(*   content the characters of a file                                      *)
(*   size    st_size in bytes                                              *)
(*   target  the path a symbolic link points to                            *)
(*   deny    TRUE when the process has no permission to open/list it       *)
(***************************************************************************)
Dir == [kind |-> "dir", content |-> <<>>, size |-> 0, target |-> <<>>, deny |-> FALSE]

File(content) ==
    [kind |-> "file", content |-> content, size |-> TextLen(content),
     target |-> <<>>, deny |-> FALSE]

Link(target) ==
    [kind |-> "link", content |-> <<>>, size |-> 0, target |-> target, deny |-> FALSE]

Exists(f, p) == p \in DOMAIN f

Parent(p) == IF p = <<>> THEN <<>> ELSE SubSeq(p, 1, Len(p) - 1)

\* Path.resolve(): ".." and "." are eliminated and symbolic links followed,
\* component by component; names that do not exist are kept as they are
RECURSIVE Resolve(_, _, _)
Resolve(f, cur, rest) ==
    IF rest = <<>> THEN cur
    ELSE LET seg == Head(rest)
             p == Append(cur, seg)
         IN IF seg = "." THEN Resolve(f, cur, Tail(rest))
            ELSE IF seg = ".." THEN Resolve(f, Parent(cur), Tail(rest))
            ELSE IF Exists(f, p) /\ f[p].kind = "link"
                 THEN Resolve(f, f[p].target, Tail(rest))
            ELSE Resolve(f, p, Tail(rest))

\* the entry a path leads to when symbolic links are followed (os.stat)
Follow(f, p) == Resolve(f, <<>>, p)

\* Path.relative_to(other) succeeds
RelativeTo(p, other) == IsPrefix(other, p)

(***************************************************************************)
(* tools/file_tool.py: path confinement.                                   *)
(***************************************************************************)
\* Path.home()
Home == <<"home", "u">>

\* self.restricted_paths
restricted_paths ==
    <<  <<>>, <<"Windows">>, <<"System">>, <<"etc">>, <<"usr">>,
        Home \o <<"Desktop">>, Home \o <<"Documents">> >>

\* _get_safe_path: [ok, path]; ok = FALSE is the PermissionError
get_safe_path_check(target, base) == RelativeTo(target, base)

get_safe_path(f, base, path) ==
    IF path.segs = <<>> \/ (~path.abs /\ path.segs = <<".">>)
    THEN [ok |-> TRUE, path |-> base]
    ELSE LET target == IF path.abs THEN Resolve(f, <<>>, path.segs)
                       ELSE Resolve(f, base, path.segs)
         IN [ok |-> get_safe_path_check(target, base), path |-> target]

\* _is_path_safe
is_path_safe(p) ==
    ~\E i \in 1..Len(restricted_paths) : RelativeTo(p, restricted_paths[i])

\* validate_input(input_data): hasOp/hasPath tell whether the kwargs carry
\* a non-empty "operation" / "path"
FileTool_validate_input(f, base, hasOp, path) ==
    IF ~hasOp THEN FALSE
    ELSE IF path.segs # <<>>
         THEN LET sp == get_safe_path(f, base, path)
              IN sp.ok /\ is_path_safe(sp.path)
    ELSE TRUE

(***************************************************************************)
(* File contents: JSON, CSV and plain text as the readers see them.        *)
(* File content is a sequence of single characters.                        *)
(***************************************************************************)
\* Path.suffix.lower() of a file name
Suffix(name) ==
    CASE name \in {"n.txt", "new.txt", "locked.txt"} -> ".txt"
      [] name \in {"d.json", "new.json", "D.JSON"} -> ".json"
      [] name \in {"t.csv", "new.csv"} -> ".csv"
      [] name \in {"b.xlsx", "new.xlsx"} -> ".xlsx"
      [] name = "old.xls" -> ".xls"
      [] name = "s.py" -> ".py"
      [] OTHER -> ""

\* text mode with universal newlines: "\r\n" and "\r" are read as "\n"
NormKept(c) ==
    SelectSeq([i \in 1..Len(c) |-> i],
              LAMBDA i : ~(c[i] = "\n" /\ i > 1 /\ c[i - 1] = "\r"))

NormJoin(c, kept) ==
    [k \in 1..Len(kept) |-> IF c[kept[k]] = "\r" THEN "\n" ELSE c[kept[k]]]

NormNewlines(c0) ==
    Bind(c0, LAMBDA c : Bind(NormKept(c), LAMBDA kept : NormJoin(c, kept)))

IsDigitChar(t) == t \in {"0", "1", "2", "3", "4", "5", "6", "7", "8", "9"}

IsJsonSpace(t) == t \in {" ", "\n", "\r", "\t"}

JNum(n) == [t |-> "n", n |-> n, items |-> <<>>]

JArr(items) == [t |-> "a", n |-> 0, items |-> items]

JErr == [ok |-> FALSE, v |-> JNum(0), i |-> 0]

RECURSIVE JSkip(_, _)
JSkip(e, i) == IF i <= Len(e) /\ IsJsonSpace(e[i]) THEN JSkip(e, i + 1) ELSE i

DigitVal(c) ==
    CASE c = "0" -> 0 [] c = "1" -> 1 [] c = "2" -> 2 [] c = "3" -> 3 [] c = "4" -> 4
      [] c = "5" -> 5 [] c = "6" -> 6 [] c = "7" -> 7 [] c = "8" -> 8 [] c = "9" -> 9

RECURSIVE JDigits(_, _, _)
JDigits(e, i, acc) ==
    IF i <= Len(e) /\ IsDigitChar(e[i]) THEN JDigits(e, i + 1, acc * 10 + DigitVal(e[i]))
    ELSE [ok |-> TRUE, v |-> JNum(acc), i |-> i]

\* json.load: numbers and arrays
RECURSIVE JValue(_, _), JItems(_, _, _)
JValue(e, i0) ==
    LET i == JSkip(e, i0)
    IN IF i > Len(e) THEN JErr
       ELSE IF IsDigitChar(e[i])
            THEN IF e[i] = "0" /\ i < Len(e) /\ IsDigitChar(e[i + 1]) THEN JErr
                 ELSE JDigits(e, i, 0)
       ELSE IF e[i] = "["
            THEN LET j == JSkip(e, i + 1)
                 IN IF j <= Len(e) /\ e[j] = "]" THEN [ok |-> TRUE, v |-> JArr(<<>>), i |-> j + 1]
                    ELSE JItems(e, i + 1, <<>>)
       ELSE JErr

JItems(e, i, acc) ==
    LET x == JValue(e, i)
        j == JSkip(e, x.i)
    IN IF ~x.ok \/ j > Len(e) THEN JErr
       ELSE IF e[j] = "," THEN JItems(e, j + 1, Append(acc, x.v))
       ELSE IF e[j] = "]" THEN [ok |-> TRUE, v |-> JArr(Append(acc, x.v)), i |-> j + 1]
       ELSE JErr

json_load(content) ==
    LET x == JValue(content, 1)
    IN IF x.ok /\ JSkip(content, x.i) = Len(content) + 1 THEN x ELSE JErr

\* json.dumps(data, indent=2) at nesting depth k
RECURSIVE json_dumps(_, _), DumpItems(_, _)
json_dumps(v, k) ==
    IF v.t = "n" THEN NatStr(v.n)
    ELSE IF v.items = <<>> THEN <<"[", "]">>
    ELSE <<"[", "\n">> \o DumpItems(v.items, k + 1) \o <<"\n">> \o Rep(" ", 2 * k) \o <<"]">>

DumpItems(items, k) ==
    Rep(" ", 2 * k) \o json_dumps(Head(items), k)
    \o (IF Len(items) > 1 THEN <<",", "\n">> \o DumpItems(Tail(items), k) ELSE <<>>)

\* csv.reader over the lines of the text: the rows, each the text of a line
RECURSIVE SplitLines(_, _)
SplitLines(c, cur) ==
    IF c = <<>> THEN (IF cur = <<>> THEN <<>> ELSE <<cur>>)
    ELSE IF Head(c) = "\n" THEN <<cur>> \o SplitLines(Tail(c), <<>>)
    ELSE SplitLines(Tail(c), Append(cur, Head(c)))

csv_rows(content) == SplitLines(NormNewlines(content), <<>>)

RECURSIVE JoinLines(_)
JoinLines(rows) ==
    IF rows = <<>> THEN <<>>
    ELSE Head(rows) \o (IF Len(rows) > 1 THEN <<"\n">> \o JoinLines(Tail(rows)) ELSE <<>>)

(***************************************************************************)
(* tools/file_tool.py: the operations.  Each returns                       *)
(* [raised, result, evalReached, touched, fs, visited, found]: touched is   *)
(* the set of resolved paths on which a filesystem call (stat, open,       *)
(* iterdir, mkdir) was made, fs the filesystem afterwards; visited is the  *)
(* set of directories os.walk listed and found is len(matches), both of    *)
(* _search_files.                                                          *)
(***************************************************************************)
\* 10 * 1024 * 1024
MaxFileSize == 10485760

\* f.read(5000)
ReadLimit == 5000

\* dirs[:10], files[:10]
ListLimit == 10

\* if total_count > 20
ListTotalLimit == 20

FOut(result, touched, f) ==
    [raised |-> FALSE, result |-> result, evalReached |-> FALSE,
     touched |-> touched, fs |-> f, visited |-> {}, found |-> 0]

\* the text of a path: names separated by "/"
RECURSIVE JoinPath(_)
JoinPath(segs) ==
    IF segs = <<>> THEN <<>>
    ELSE <<Head(segs)>> \o (IF Len(segs) > 1 THEN <<"/">> \o JoinPath(Tail(segs)) ELSE <<>>)

PathText(path) == (IF path.abs THEN <<"/">> ELSE <<>>) \o JoinPath(path.segs)

AbsText(p) == <<"/">> \o JoinPath(p)

Name(p) == p[Len(p)]

Children(f, p) == {c \in DOMAIN f : c # <<>> /\ Parent(c) = p}

\* a read that strips the text it returns
read_text_strip(content) ==
    LET c == RStrip(Take(NormNewlines(content), ReadLimit))
    IN IF Len(c) = ReadLimit THEN c \o <<"<truncated>">> ELSE c

\* f.read(5000), and the marker when 5000 characters came back
read_text(content) ==
    LET c == Take(NormNewlines(content), ReadLimit)
    IN IF Len(c) = ReadLimit THEN c \o <<"<truncated>">> ELSE c

read_file(f, base, filepath) ==
    LET sp == get_safe_path(f, base, filepath)
        p == sp.path
        echo == PathText(filepath)
    IN IF ~sp.ok THEN FOut(Result("no_permission_read", echo), {}, f)
       ELSE IF ~Exists(f, p) THEN FOut(Result("file_not_found", echo), {p}, f)
       ELSE IF f[p].kind # "file" THEN FOut(Result("not_a_file", echo), {p}, f)
       ELSE IF f[p].size > MaxFileSize THEN FOut(Result("file_too_large", echo), {p}, f)
       ELSE IF f[p].deny THEN FOut(Result("no_permission_read", echo), {p}, f)
       ELSE LET ext == Suffix(Name(p))
            IN IF ext = ".json"
               THEN LET data == json_load(f[p].content)
                    IN IF data.ok
                       THEN FOut(Result("json_content", json_dumps(data.v, 0)), {p}, f)
                       ELSE FOut(Result("read_failed", <<"<exception text>">>), {p}, f)
               ELSE IF ext = ".csv"
                    THEN LET rows == csv_rows(f[p].content)
                         IN IF rows = <<>> THEN FOut(Result("csv_empty", <<>>), {p}, f)
                            ELSE FOut(Result("csv_content",
                                         NatStr(Len(rows)) \o JoinLines(Take(rows, 5))),
                                      {p}, f)
               ELSE IF ext \in {".xlsx", ".xls"}
                    THEN IF f[p].content = <<"<workbook>">>
                         THEN FOut(Result("excel_content", <<"<dataframe>">>), {p}, f)
                         ELSE FOut(Result("excel_unreadable", <<>>), {p}, f)
               ELSE FOut(Result("file_content", read_text(f[p].content)), {p}, f)

write_store(f, p, content) ==
    [q \in DOMAIN f \cup {p} |-> IF q = p THEN File(content) ELSE f[q]]

\* a write that renames a new file over the path as the caller names it,
\* without resolving it: a symbolic link at that path is replaced by the file
write_file_replace(f, base, filepath, content) ==
    LET p == base \o filepath.segs
        echo == PathText(filepath)
    IN IF filepath.abs \/ filepath.segs = <<>>
          \/ (\E i \in 1..Len(filepath.segs) : filepath.segs[i] \in {".", ".."})
          \/ ~Exists(f, Parent(p))
       THEN FOut(Result("no_permission_write", echo), {}, f)
       ELSE FOut(Result("file_saved", echo), {p}, write_store(f, p, content))

\* content.encode('utf-8') succeeds: the text holds no lone surrogate (the
\* token "<surrogate>" stands for one, as json.loads yields for "\ud800")
Encodable(content) == \A i \in 1..Len(content) : content[i] # "<surrogate>"

write_file(f, base, filepath, content) ==
    LET sp == get_safe_path(f, base, filepath)
        p == sp.path
        parent == Parent(p)
        echo == PathText(filepath)
    IN IF ~sp.ok THEN FOut(Result("no_permission_write", echo), {}, f)
       ELSE IF ~Exists(f, parent) THEN FOut(Result("parent_missing", AbsText(parent)), {parent}, f)
       ELSE IF f[parent].kind # "dir" \/ (Exists(f, p) /\ f[p].kind # "file")
            THEN FOut(Result("write_failed", <<"<exception text>">>), {parent, p}, f)
       ELSE IF f[parent].deny \/ (Exists(f, p) /\ f[p].deny)
            THEN FOut(Result("no_permission_write", echo), {parent, p}, f)
       \* open(full_path, 'w') has created or emptied the file when f.write
       \* raises UnicodeEncodeError
       ELSE IF ~Encodable(content)
            THEN FOut(Result("write_failed", <<"<exception text>">>), {parent, p},
                      write_store(f, p, <<>>))
       ELSE FOut(Result("file_saved", echo), {parent, p}, write_store(f, p, content))

list_directory(f, base, dirpath0) ==
    LET dirpath == IF dirpath0.segs = <<>> THEN [abs |-> FALSE, segs |-> <<".">>] ELSE dirpath0
        sp == get_safe_path(f, base, dirpath)
        p == sp.path
        echo == PathText(dirpath)
    IN IF ~sp.ok THEN FOut(Result("no_permission_list", echo), {}, f)
       ELSE IF ~Exists(f, p) THEN FOut(Result("directory_not_found", echo), {p}, f)
       ELSE IF f[p].kind # "dir" THEN FOut(Result("not_a_directory", echo), {p}, f)
       ELSE IF f[p].deny THEN FOut(Result("no_permission_list", echo), {p}, f)
       ELSE LET items == Children(f, p)
                \* item.is_dir() and item.stat() follow symbolic links
                stats == {Follow(f, c) : c \in items}
                dirs == {c \in items : Exists(f, Follow(f, c)) /\ f[Follow(f, c)].kind = "dir"}
                files == items \ dirs
                total_count == Cardinality(items)
            IN IF items = {} THEN FOut(Result("directory_empty", echo), {p}, f)
               ELSE IF \E c \in files : ~Exists(f, Follow(f, c))
                    THEN FOut(Result("list_failed", <<"<exception text>">>), {p} \cup stats, f)
               ELSE FOut(Result("directory_listing",
                            echo \o Rep("<dir entry>", Min(Cardinality(dirs), ListLimit))
                                 \o Rep("<file entry>", Min(Cardinality(files), ListLimit))
                                 \o (IF total_count > ListTotalLimit
                                     THEN <<"<more items>">> \o NatStr(total_count) ELSE <<>>)),
                         {p} \cup stats, f)

get_file_info(f, base, filepath) ==
    LET sp == get_safe_path(f, base, filepath)
        p == sp.path
        echo == PathText(filepath)
    IN IF ~sp.ok THEN FOut(Result("no_permission_info", echo), {}, f)
       ELSE IF ~Exists(f, p) THEN FOut(Result("file_not_found", echo), {p}, f)
       ELSE FOut(Result("file_info",
                    echo \o <<"<size>", "<time>", "<time>", "<time>", "<mode>">>
                         \o (IF f[p].kind = "file" THEN <<"<type>">> ELSE <<>>)),
                 {p}, f)

\* the ancestors of p (p included) that do not exist
Missing(f, p) == {SubSeq(p, 1, k) : k \in 1..Len(p)} \ DOMAIN f

\* a mkdir without parents=True: the directory alone, whether or not its
\* parent exists
mkdir_store_leaf(f, p) ==
    [q \in DOMAIN f \cup {p} |-> IF q \in DOMAIN f THEN f[q] ELSE Dir]

\* full_path.mkdir(parents=True, exist_ok=True)
mkdir_store(f, p) ==
    [q \in DOMAIN f \cup Missing(f, p) |-> IF q \in DOMAIN f THEN f[q] ELSE Dir]

create_directory(f, base, dirpath) ==
    LET sp == get_safe_path(f, base, dirpath)
        p == sp.path
        echo == PathText(dirpath)
        \* the deepest ancestor that exists
        anchor == CHOOSE a \in {SubSeq(p, 1, k) : k \in 0..Len(p)} :
                      /\ Exists(f, a)
                      /\ \A k \in Len(a) + 1..Len(p) : ~Exists(f, SubSeq(p, 1, k))
    IN IF ~sp.ok THEN FOut(Result("no_permission_mkdir", echo), {}, f)
       ELSE IF Exists(f, p) THEN FOut(Result("directory_exists", echo), {p}, f)
       ELSE IF f[anchor].kind # "dir"
            THEN FOut(Result("mkdir_failed", <<"<exception text>">>), {p}, f)
       ELSE IF f[anchor].deny THEN FOut(Result("no_permission_mkdir", echo), {p}, f)
       ELSE FOut(Result("directory_created", echo), Missing(f, p), mkdir_store(f, p))

check_exists(f, base, path) ==
    LET sp == get_safe_path(f, base, path)
        p == sp.path
        echo == PathText(path)
    IN IF ~sp.ok THEN FOut(Result("check_failed", <<"<out of range>">> \o echo), {}, f)
       ELSE IF ~Exists(f, p) THEN FOut(Result("does_not_exist", echo), {p}, f)
       ELSE IF f[p].kind = "file" THEN FOut(Result("file_exists", echo), {p}, f)
       ELSE FOut(Result("directory_exists_check", echo), {p}, f)

(***************************************************************************)
(* tools/file_tool.py: _search_files.  os.walk visits the tree top-down;   *)
(* the order of the entries of a directory is the order the operating      *)
(* system lists them in, here the order of NameOrder or its reverse.       *)
(***************************************************************************)
\* root.count(os.sep) - str(full_path).count(os.sep) > 3
SearchDepth == 3

\* if len(matches) >= 20: break
SearchLimit == 20

\* matches[:10]
SearchShown == 10

NameOrder ==
    <<"a", "b.xlsx", "big.bin", "d.json", "deep", "link", "locked.txt", "n.txt",
      "new", "new.csv", "new.json", "new.txt", "sub", "t.csv", "x">>

Rank(name) ==
    IF \E i \in 1..Len(NameOrder) : NameOrder[i] = name
    THEN CHOOSE i \in 1..Len(NameOrder) : NameOrder[i] = name
    ELSE Len(NameOrder) + 1

\* the members of a set of paths, ordered by the rank of their names
RECURSIVE Ordered(_, _)
Ordered(ps, rev) ==
    IF ps = {} THEN <<>>
    ELSE LET first == CHOOSE c \in ps : \A o \in ps :
                          IF rev THEN Rank(Name(c)) >= Rank(Name(o))
                          ELSE Rank(Name(c)) <= Rank(Name(o))
         IN <<first>> \o Ordered(ps \ {first}, rev)

\* fnmatch.fnmatch(name, pattern) for the patterns of the model
fnmatch(name, pattern) ==
    CASE pattern = <<"*">> -> TRUE
      [] pattern = <<"*", ".txt">> -> Suffix(name) = ".txt"
      [] OTHER -> pattern = <<name>>

\* os.walk with the loop body of _search_files: stack holds the directories
\* still to visit; the result is [matches, visited, stats]
RECURSIVE Walk(_, _, _, _, _, _)
Walk(f, top, pattern, rev, stack, acc) ==
    IF stack = <<>> THEN acc
    ELSE LET d == Head(stack)
             items == IF f[d].deny THEN {} ELSE Children(f, d)
             \* scandir: entry.is_dir() follows a symbolic link
             isdir == {c \in items : Exists(f, Follow(f, c)) /\ f[Follow(f, c)].kind = "dir"}
             \* walk into the real directories only (followlinks=False)
             walk_into == {c \in isdir : f[c].kind = "dir"}
             files == Ordered(items \ isdir, rev)
             skip == Len(d) - Len(top) > SearchDepth
             found == IF skip THEN <<>>
                      ELSE SelectSeq(files, LAMBDA c : fnmatch(Name(c), pattern))
             acc2 == [matches |-> acc.matches \o found,
                      visited |-> acc.visited \cup {d},
                      stats |-> acc.stats \cup {d} \cup {Follow(f, c) : c \in items}]
         IN IF ~skip /\ Len(acc2.matches) >= SearchLimit THEN acc2
            ELSE Walk(f, top, pattern, rev, Ordered(walk_into, rev) \o Tail(stack), acc2)

RECURSIVE RelPaths(_, _)
RelPaths(matches, top) ==
    IF matches = <<>> THEN <<>>
    ELSE JoinPath(SubSeq(Head(matches), Len(top) + 1, Len(Head(matches)))) \o <<"\n">>
         \o RelPaths(Tail(matches), top)

search_files(f, base, dirpath0, pattern, rev) ==
    LET dirpath == IF dirpath0.segs = <<>> THEN [abs |-> FALSE, segs |-> <<".">>] ELSE dirpath0
        sp == get_safe_path(f, base, dirpath)
        p == sp.path
        echo == PathText(dirpath)
    IN IF ~sp.ok THEN FOut(Result("no_permission_search", echo), {}, f)
       ELSE IF ~Exists(f, p) THEN FOut(Result("directory_not_found", echo), {p}, f)
       ELSE IF f[p].kind # "dir" THEN FOut(Result("not_a_directory", echo), {p}, f)
       ELSE LET w == Walk(f, p, pattern, rev, <<p>>,
                          [matches |-> <<>>, visited |-> {}, stats |-> {}])
            IN IF w.matches = <<>>
               THEN [FOut(Result("search_no_match", echo \o pattern), w.stats, f)
                        EXCEPT !.visited = w.visited]
               ELSE [FOut(Result("search_results",
                             echo \o pattern \o NatStr(Len(w.matches))
                                  \o RelPaths(Take(w.matches, SearchShown), p)
                                  \o (IF Len(w.matches) > SearchShown
                                      THEN <<"<more files>">>
                                           \o NatStr(Len(w.matches) - SearchShown)
                                      ELSE <<>>)),
                          w.stats, f)
                        EXCEPT !.visited = w.visited, !.found = Len(w.matches)]

(***************************************************************************)
(* tools/file_tool.py: execute.                                            *)
(***************************************************************************)
FileOps == {"read", "write", "list", "info", "mkdir", "search", "exists"}

FileTool_execute(f, base, operation, path, content, pattern, rev) ==
    CASE operation = "read"   -> read_file(f, base, path)
      [] operation = "write"  -> write_file(f, base, path, content)
      [] operation = "list"   -> list_directory(f, base, path)
      [] operation = "info"   -> get_file_info(f, base, path)
      [] operation = "mkdir"  -> create_directory(f, base, path)
      [] operation = "search" -> search_files(f, base, path, pattern, rev)
      [] operation = "exists" -> check_exists(f, base, path)
      [] operation = "help"   -> FOut(Result("help", <<>>), {}, f)
      [] OTHER -> FOut(Result("unsupported_operation", <<operation>>), {}, f)

(***************************************************************************)
(* tools/web_tool.py.  A URL is a sequence of tokens: the scheme (with     *)
(* "://"), the host, then the pieces of the path and query.                *)
(***************************************************************************)
\* self.timeout
Timeout == 10

\* text[:2000], formatted[:2000]
FetchLimit == 2000

\* response.text[:1000]
ApiTextLimit == 1000

\* links[:10]
LinksShown == 10

\* images[:5]
ImagesShown == 5

\* the literals of dangerous_domains that occur in a token of a URL
DangerousIn(t) ==
    CASE t \in {"localhost", "localhost.html"} -> {"localhost"}
      [] t = "127.0.0.1" -> {"127.0.0.1"}
      [] t = "192.168.1.1" -> {"192.168."}
      [] t \in {"10.0.0.1", "110.1.2.3", "v10.html"} -> {"10."}
      [] OTHER -> {}

dangerous_domains(url) == \E i \in 1..Len(url) : DangerousIn(url[i]) # {}

\* url.startswith(('http://', 'https://'))
StartsWithHttp(url) == url # <<>> /\ url[1] \in {"http://", "https://"}

\* validate_input(input_data): hasOp tells whether kwargs carry "operation"
WebTool_validate_input(hasOp, url) ==
    IF ~hasOp THEN FALSE
    ELSE IF url # <<>> THEN StartsWithHttp(url) /\ ~dangerous_domains(url)
    ELSE TRUE

\* what the requests library does with a URL before it sends anything:
\* a missing or unsupported scheme raises MissingSchema / InvalidSchema (the
\* scheme is compared in lower case)
HasHttpScheme(url) == url # <<>> /\ url[1] \in {"http://", "https://", "HTTP://"}

\* the addresses that are loopback or private-network addresses
IsInternalHost(h) ==
    h \in {"localhost", "LOCALHOST", "127.0.0.1", "127.0.0.2", "[::1]",
           "192.168.1.1", "10.0.0.1", "172.16.0.1"}

UrlHost(url) == IF Len(url) >= 2 THEN url[2] ELSE ""

\* a response of the network: outcome, the number of redirects followed
\* before it, the status code and the page
\* (requests follows redirects: allow_redirects defaults to True)
Response(outcome, redirects, status, page) ==
    [outcome |-> outcome, redirects |-> redirects, status |-> status, page |-> page]

\* a page: the title (<<>> when there is no <title>), the text that
\* soup.get_text() yields, the href of each <a href>, the src of each
\* <img src>, len(response.text), and the JSON value of the body if any
Page(title, text, links, images, raw_len, json) ==
    [title |-> title, text |-> text, links |-> links, images |-> images,
     raw_len |-> raw_len, json |-> json]

WOut(raised, result, requests) ==
    [raised |-> raised, result |-> result, evalReached |-> FALSE, requests |-> requests]

\* the cleaning of the text in _fetch_webpage: each line is stripped and
\* split at double blanks, each phrase stripped, the empty chunks dropped and
\* the rest joined by newlines.  Stated over the positions of the text: a run
\* of blanks and newlines at either end disappears, a single blank between
\* two words stays, any other run becomes one newline.
IsBlank(t) == t \in {" ", "\n"}

\* the positions that survive: every word character, and the first blank of
\* each run of blanks that follows a word character
CleanKept(c) ==
    SelectSeq([i \in 1..Len(c) |-> i],
              LAMBDA i : IsBlank(c[i]) => (i > 1 /\ ~IsBlank(c[i - 1])))

\* the run of blanks at the end of the text leaves nothing
CleanTrim(c, kept) ==
    IF kept # <<>> /\ IsBlank(c[kept[Len(kept)]]) THEN SubSeq(kept, 1, Len(kept) - 1)
    ELSE kept

CleanJoin(c, kept) ==
    [k \in 1..Len(kept) |->
        IF ~IsBlank(c[kept[k]]) THEN c[kept[k]]
        ELSE IF c[kept[k]] = " " /\ ~IsBlank(c[kept[k] + 1]) THEN " " ELSE "\n"]

clean_text(text) ==
    Bind(NormNewlines(text),
         LAMBDA c : Bind(CleanKept(c),
                         LAMBDA kept0 : Bind(CleanTrim(c, kept0),
                                             LAMBDA kept : CleanJoin(c, kept))))

\* requests.get/post/put/delete: the number of HTTP requests sent
requests_sent(url, resp) == IF HasHttpScheme(url) THEN 1 + resp.redirects ELSE 0

fetch_webpage(url, resp) ==
    IF ~HasHttpScheme(url) THEN WOut(FALSE, Result("request_error", <<"<exception text>">>), 0)
    ELSE LET n == requests_sent(url, resp)
         IN CASE resp.outcome = "timeout" -> WOut(FALSE, Result("request_timeout", url), n)
              [] resp.outcome = "connection_error" ->
                    WOut(FALSE, Result("connection_error", url), n)
              [] resp.outcome = "too_many_redirects" ->
                    WOut(FALSE, Result("request_error", <<"<exception text>">>), n)
              [] resp.outcome = "ok" /\ resp.status >= 400 ->
                    WOut(FALSE, Result("http_error", NatStr(resp.status) \o url), n)
              [] OTHER ->
                    LET title == IF resp.page.title = <<>> THEN <<"<no title>">>
                                 ELSE resp.page.title
                        text(cleaned) == IF Len(cleaned) > FetchLimit
                                         THEN Take(cleaned, FetchLimit) \o <<"<truncated>">>
                                         ELSE cleaned
                    IN WOut(FALSE, Result("webpage",
                               url \o title \o NatStr(resp.status)
                                   \o NatStr(resp.page.raw_len)
                                   \o Bind(clean_text(resp.page.text), text)), n)

\* requests.compat.urljoin(url, ref) for a reference that begins with "/"
\* ("/path": same scheme and host; "//host/path": same scheme)
urljoin(url, ref) ==
    IF Head(ref) = "//" THEN <<url[1]>> \o Tail(ref) ELSE SubSeq(url, 1, 2) \o ref

\* the response of a request that raised, as the "except Exception" of
\* _extract_links, _extract_images and _call_api sees it
RequestFailed(url, resp) ==
    \/ ~HasHttpScheme(url)
    \/ resp.outcome \in {"timeout", "connection_error", "too_many_redirects"}
    \/ resp.status >= 400

\* the loop of _extract_links over soup.find_all('a', href=True)
RECURSIVE CollectLinks(_, _)
CollectLinks(url, as) ==
    IF as = <<>> THEN <<>>
    ELSE LET href == Head(as).href
             text == Head(as).text
             rest == CollectLinks(url, Tail(as))
         IN IF href # <<>> /\ Head(href) \in {"/", "//"}
            THEN <<text \o urljoin(url, href)>> \o rest
            ELSE IF ~StartsWithHttp(href) THEN rest
            ELSE <<text \o href>> \o rest

\* the loop of _extract_images over soup.find_all('img', src=True)
RECURSIVE CollectImages(_, _)
CollectImages(url, imgs) ==
    IF imgs = <<>> THEN <<>>
    ELSE LET src == Head(imgs).href
             alt == Head(imgs).text
             rest == CollectImages(url, Tail(imgs))
         IN IF src # <<>> /\ Head(src) \in {"/", "//"}
            THEN <<alt \o urljoin(url, src)>> \o rest
            ELSE IF ~(StartsWithHttp(src) \/ (src # <<>> /\ Head(src) = "data:image"))
                 THEN rest
            ELSE <<alt \o src>> \o rest

RECURSIVE Flatten(_)
Flatten(ss) == IF ss = <<>> THEN <<>> ELSE Head(ss) \o <<"\n">> \o Flatten(Tail(ss))

Listing(msg, empty_msg, url, found, shown) ==
    IF found = <<>> THEN Result(empty_msg, <<>>)
    ELSE Result(msg, url \o NatStr(Len(found)) \o Flatten(Take(found, shown))
                     \o (IF Len(found) > shown
                         THEN <<"<more entries>">> \o NatStr(Len(found) - shown)
                         ELSE <<>>))

extract_links(url, resp) ==
    IF RequestFailed(url, resp)
    THEN WOut(FALSE, Result("extract_links_failed", <<"<exception text>">>),
              requests_sent(url, resp))
    ELSE WOut(FALSE, Listing("links", "no_links", url,
                             CollectLinks(url, resp.page.links), LinksShown),
              requests_sent(url, resp))

extract_images(url, resp) ==
    IF RequestFailed(url, resp)
    THEN WOut(FALSE, Result("extract_images_failed", <<"<exception text>">>),
              requests_sent(url, resp))
    ELSE WOut(FALSE, Listing("images", "no_images", url,
                             CollectImages(url, resp.page.images), ImagesShown),
              requests_sent(url, resp))

call_api(url, method, resp) ==
    IF method \notin {"GET", "POST", "PUT", "DELETE"}
    THEN WOut(FALSE, Result("unsupported_http_method", <<method>>), 0)
    ELSE IF RequestFailed(url, resp)
         THEN WOut(FALSE, Result("api_call_failed", <<"<exception text>">>),
                   requests_sent(url, resp))
    ELSE LET body == IF resp.page.json.ok
                     THEN LET formatted == json_dumps(resp.page.json.v, 0)
                          IN IF Len(formatted) > FetchLimit
                             THEN Take(formatted, FetchLimit) \o <<"<json truncated>">>
                             ELSE formatted
                     ELSE Take(resp.page.text, ApiTextLimit)
                          \o (IF Len(resp.page.text) > ApiTextLimit
                              THEN <<"<text truncated>">> ELSE <<>>)
         IN WOut(FALSE, Result("api_response",
                    url \o <<method>> \o NatStr(resp.status) \o body),
                 requests_sent(url, resp))

analyze_json(v) ==
    IF v.t = "a"
    THEN IF Len(v.items) > 0 THEN <<"<array>">> \o NatStr(Len(v.items)) \o <<"<type>">>
         ELSE <<"<empty array>">>
    ELSE <<"<value type>", "<type>">>

parse_json(json_str) ==
    LET data == json_load(json_str)
    IN IF ~data.ok THEN WOut(FALSE, Result("json_decode_error", <<"<exception text>">>), 0)
       ELSE LET formatted == json_dumps(data.v, 0)
            IN WOut(FALSE, Result("json_parsed",
                       analyze_json(data.v)
                       \o (IF Len(formatted) > FetchLimit
                           THEN Take(formatted, FetchLimit) \o <<"<json truncated>">>
                           ELSE formatted)), 0)

WebOps == {"fetch", "links", "images", "api", "parse_json"}

WebTool_execute(operation, url, method, json_str, resp) ==
    CASE operation = "fetch"  -> fetch_webpage(url, resp)
      [] operation = "links"  -> extract_links(url, resp)
      [] operation = "images" -> extract_images(url, resp)
      [] operation = "api"    -> call_api(url, method, resp)
      [] operation = "parse_json" -> parse_json(json_str)
      [] operation = "help"   -> WOut(FALSE, Result("help", <<>>), 0)
      [] OTHER -> WOut(FALSE, Result("unsupported_operation", <<operation>>), 0)

(***************************************************************************)
(* tools/time_tool.py: execute.  The answer depends on the clock only; the *)
(* query selects the branch.  Every branch returns a string.               *)
(***************************************************************************)
\* "days after" at position i of the query
DaysAfterAt(q, i) == q[i] = "days" /\ q[i + 1] = " " /\ q[i + 2] = "after"

\* The tokens "<xianzai>" and "<shijian>" stand for the queries 现在 and 时间.
TimeTool_execute(query) ==
    LET q == LowerSeq(Strip(query))
    IN IF q \in {<<"<xianzai>">>, <<"<shijian>">>}
       THEN Result("current_time", <<"<time>">>)
       ELSE IF \E i \in 1..Len(q) : q[i] = "utc" THEN Result("utc_time", <<"<time>">>)
       ELSE IF \E i \in 1..Len(q) : q[i] = "timezone"
            THEN Result("timezone", <<"<time>">>)
       ELSE IF \E i \in 1..Len(q) - 2 : DaysAfterAt(q, i)
            \* re.search(r'(\d+)\s*days\s*after')
            THEN IF \E i \in 2..Len(q) - 2 :
                       /\ DaysAfterAt(q, i)
                       /\ \/ IsDigitChar(q[i - 1])
                          \/ i > 2 /\ q[i - 1] = " " /\ IsDigitChar(q[i - 2])
                 THEN Result("future_date", <<"<date>">>)
                 ELSE Result("date_format_error", <<>>)
       ELSE Result("detailed_time", <<"<time>">>)

(***************************************************************************)
(* The initial state: the registry as _register_tools builds it, the       *)
(* sandbox root (the working directory of the process) and the files that  *)
(* are there when the process starts.                                      *)
(***************************************************************************)
\* working directories the process may be started in
BasePaths == {Home \o <<"proj">>, <<"usr", "app">>}

\* the entries of the working directory, relative to it
SandboxEntries ==
    [p \in {<<"a">>, <<"a", "n.txt">>, <<"d.json">>, <<"t.csv">>, <<"link">>,
            <<"locked.txt">>, <<"big.bin">>, <<"b.xlsx">>} |->
        CASE p = <<"a">> -> Dir
          [] p = <<"a", "n.txt">> -> File(<<"h", "i">>)
          [] p = <<"d.json">> -> File(<<"[", "1", ",", "2", "]">>)
          [] p = <<"t.csv">> -> File(<<"a", ",", "b", "\n", "c", ",", "d", "\n">>)
          [] p = <<"link">> -> Link(<<"etc", "passwd">>)
          [] p = <<"locked.txt">> -> [File(<<"s">>) EXCEPT !.deny = TRUE]
          [] p = <<"big.bin">> -> [File(<<>>) EXCEPT !.size = MaxFileSize + 1]
          [] p = <<"b.xlsx">> -> File(<<"<workbook>">>)]

\* the rest of the filesystem
SystemEntries ==
    [p \in {<<>>, <<"etc">>, <<"etc", "passwd">>, <<"home">>, Home, <<"usr">>} |->
        IF p = <<"etc", "passwd">> THEN File(<<"r", "o", "o", "t">>) ELSE Dir]

InitFs(base) ==
    LET inside == {base \o q : q \in DOMAIN SandboxEntries}
        ancestors == {SubSeq(base, 1, k) : k \in 0..Len(base)}
    IN [p \in DOMAIN SystemEntries \cup ancestors \cup inside |->
            IF p \in inside THEN SandboxEntries[SubSeq(p, Len(base) + 1, Len(p))]
            ELSE IF p \in DOMAIN SystemEntries THEN SystemEntries[p]
            ELSE Dir]

Init ==
    /\ tools = register_tools
    /\ base_path \in BasePaths
    /\ fs = InitFs(base_path)
    /\ conversation_history = <<>>
    /\ memory = NoMemory
    /\ successes = 0
    /\ last = NoCall

(***************************************************************************)
(* The arguments a caller passes.                                          *)
(***************************************************************************)
Rel(segs) == [abs |-> FALSE, segs |-> segs]

AbsPath(segs) == [abs |-> TRUE, segs |-> segs]

Expressions ==
    {<<>>,
     <<"2", "+", "3", "*", "4">>,
     <<"10", "/", "0">>,
     <<"10", "/", "4">>,
     <<"sqrt", "(", "16", ")">>,
     <<"sqrt", "(", "-", "1", ")">>,
     <<"foo">>,
     <<"1", "+">>,
     <<"import", " ", "os">>,
     <<"IMPORT", " ", "os">>,
     <<"import", "os">>,
     <<"Exec", " ", "(", "1", ")">>,
     <<"eval", "(", "1", ")">>,
     <<"open", "(", "x", ")">>,
     <<"os", ".", "x">>,
     <<"sys", ".", "exit", "(", ")">>,
     <<"subprocess", ".", "x">>,
     <<"abs", ".", "__", "self", "__", ".", "exit", "(", ")">>,
     <<"10", "km", " ", "to", " ", "m">>,
     <<"0", "C", " ", "to", " ", "F">>,
     <<"1", "km", " ", "to", " ", "kg">>,
     <<"1", "longname", " ", "to", " ", "m">>,
     <<"mean", "(", "[", "1", ",", "2", ",", "3", ",", "4", ",", "5", "]", ")">>,
     <<"std", "(", "[", "1", "]", ")">>}

Queries == {<<>>, <<"<xianzai>">>, <<"now">>, <<"utc">>, <<"3", " ", "days", " ", "after">>, <<"longname">>}

ListPaths ==
    {Rel(<<>>), Rel(<<".">>), Rel(<<"a">>), Rel(<<"a", "n.txt">>), Rel(<<"nope">>),
     Rel(<<"..", "..", "etc", "passwd">>), AbsPath(<<"etc", "passwd">>),
     Rel(<<"link">>), Rel(<<"a", "..", "..">>), Rel(<<"longname">>)}

Urls ==
    {<<>>,
     <<"http://", "example.com", "/">>,
     <<"https://", "example.com", "/", "v10.html">>,
     <<"http://", "127.0.0.1", "/">>,
     <<"https://", "localhost", "/">>,
     <<"http://", "172.16.0.1", "/">>,
     <<"http://", "[::1]", "/">>,
     <<"ftp://", "example.com", "/">>,
     <<"example.com">>,
     <<"http://", "example.com", "/", "longname">>}

NoJson == [ok |-> FALSE, v |-> JNum(0)]

Ref(href, text) == [href |-> href, text |-> text]

Pages ==
    {Page(<<"T">>, <<" ", "a", " ", " ", "b", "\n", "\n", "c">>,
          << Ref(<<"/", "a">>, <<"A">>), Ref(<<"page.html">>, <<>>),
             Ref(<<"https://", "other.org">>, <<>>), Ref(<<"mailto:", "x">>, <<>>) >>,
          << Ref(<<"/", "i.png">>, <<"I">>), Ref(<<"data:image", "x">>, <<>>),
             Ref(<<"img.png">>, <<>>) >>,
          8, NoJson),
     Page(<<>>, <<>>, <<>>, <<>>, 0, [ok |-> TRUE, v |-> JArr(<<JNum(1)>>)])}

\* a page whose text is longer than the cap of _fetch_webpage
LongPage == Page(<<"longname">>, Rep("x", FetchLimit + 1), <<>>, <<>>, FetchLimit + 1, NoJson)

EmptyPage == Page(<<>>, <<>>, <<>>, <<>>, 0, NoJson)

\* the redirects followed in the responses of the model
MaxRedirects == 1

Responses ==
    {Response("ok", r, 200, pg) : r \in 0..MaxRedirects, pg \in Pages}
    \cup {Response("ok", 0, 404, EmptyPage), Response("timeout", 0, 0, EmptyPage),
          Response("connection_error", 0, 0, EmptyPage),
          Response("too_many_redirects", MaxRedirects, 0, EmptyPage)}

\* the URL and response of each call of the web tool
WebCalls ==
    {[url |-> u, resp |-> r] : u \in Urls, r \in {q \in Responses : q.status = 200}}
    \cup {[url |-> <<"http://", "example.com", "/">>, resp |-> r] :
              r \in Responses \cup {Response("ok", 0, 200, LongPage)}}

(***************************************************************************)
(* tools/tool_factory.py: the functions _register_tools registers.  Each   *)
(* calls the execute method of the tool instance directly.                 *)
(***************************************************************************)
Registered(name, func) == name \in DOMAIN tools /\ tools[name].func = func

Record(tool, via, op, out) ==
    [NoCall EXCEPT !.tool = tool, !.via = via, !.op = op,
                   !.raised = out.raised, !.returned = ~out.raised,
                   !.result = out.result, !.evalReached = out.evalReached]

\* func=lambda x: calculator_tool.execute(expression=x)
invoke_calculator(x) ==
    /\ Registered("calculator", "calculator_tool.execute")
    /\ \E out \in {Calculator_execute(x)} :
          last' = [Record("calculator", "registry", "execute", out)
                      EXCEPT !.name = "calculator", !.expression = x, !.executed = TRUE]
    /\ UNCHANGED <<tools, base_path, fs, conversation_history, memory, successes>>

\* func=lambda x: time_tool.execute(query=x)
invoke_time_tool(x) ==
    /\ Registered("time_tool", "time_tool.execute")
    /\ last' = [Record("time_tool", "registry", "execute",
                       Outcome(FALSE, TimeTool_execute(x), FALSE))
                   EXCEPT !.name = "time_tool", !.expression = x, !.executed = TRUE]
    /\ UNCHANGED <<tools, base_path, fs, conversation_history, memory, successes>>

\* func=lambda x: file_tool.execute(operation="list", path=x) if x
\*                else file_tool.execute(operation="list")
invoke_file_tool(x) ==
    /\ Registered("file_tool", "file_tool.execute(list)")
    /\ \E out \in {FileTool_execute(fs, base_path, "list", x, <<>>, <<"*">>, FALSE)} :
          /\ last' = [Record("file_tool", "registry", "list", out)
                         EXCEPT !.name = "file_tool", !.path = x, !.executed = TRUE,
                                !.touched = out.touched]
          /\ fs' = out.fs
    /\ UNCHANGED <<tools, base_path, conversation_history, memory, successes>>

\* func=lambda x: web_tool.execute(operation="fetch", url=x)
invoke_web_tool(x, resp) ==
    /\ Registered("web_tool", "web_tool.execute(fetch)")
    /\ \E out \in {WebTool_execute("fetch", x, "GET", <<>>, resp)} :
          last' = [Record("web_tool", "registry", "fetch", out)
                      EXCEPT !.name = "web_tool", !.url = x, !.executed = TRUE,
                             !.requests = out.requests]
    /\ UNCHANGED <<tools, base_path, fs, conversation_history, memory, successes>>

(***************************************************************************)
(* Calls of the file tool: execute called directly, and the tool called    *)
(* as a function (BaseTool.__call__), which validates the keyword          *)
(* arguments first.                                                        *)
(***************************************************************************)
FileArgs(op, path, content, pattern, rev) ==
    [op |-> op, path |-> path, content |-> content, pattern |-> pattern, rev |-> rev]

\* a read that comes right after a successful write of the same path
FollowsWrite(op, path) ==
    op = "read" /\ last.tool = "file_tool" /\ last.op = "write"
    /\ last.result.msg = "file_saved" /\ last.path = path

FileRecord(via, c, out) ==
    [Record("file_tool", via, c.op, out)
        EXCEPT !.path = c.path, !.touched = out.touched,
               !.visited = out.visited, !.found = out.found,
               !.content = IF c.op = "write" THEN c.content
                           ELSE IF FollowsWrite(c.op, c.path) THEN last.content
                           ELSE <<>>,
               !.follows_write = FollowsWrite(c.op, c.path)]

\* file_tool.execute(operation, path, content, pattern=...)
FileExecute(c) ==
    /\ \E out \in {FileTool_execute(fs, base_path, c.op, c.path, c.content,
                                    c.pattern, c.rev)} :
          /\ last' = [FileRecord("execute", c, out) EXCEPT !.executed = TRUE]
          /\ fs' = out.fs
    /\ UNCHANGED <<tools, base_path, conversation_history, memory, successes>>

\* file_tool(operation=..., path=..., content=...)
FileCall(c) ==
    /\ \E accepted \in {FileTool_validate_input(fs, base_path, TRUE, c.path)} :
       \E out \in {IF accepted
                   THEN FileTool_execute(fs, base_path, c.op, c.path, c.content,
                                         c.pattern, c.rev)
                   ELSE FOut(Result("validation_failed", <<>>), {}, fs)} :
          /\ last' = [FileRecord("__call__", c, out)
                         EXCEPT !.validated = TRUE, !.accepted = accepted,
                                !.executed = accepted]
          /\ fs' = out.fs
    /\ UNCHANGED <<tools, base_path, conversation_history, memory, successes>>

\* the paths of the calls
FilePaths ==
    {Rel(<<>>), Rel(<<"a">>), Rel(<<"a", "n.txt">>), Rel(<<"d.json">>), Rel(<<"t.csv">>),
     Rel(<<"b.xlsx">>), Rel(<<"link">>), Rel(<<"locked.txt">>), Rel(<<"big.bin">>),
     Rel(<<"new.txt">>), Rel(<<"new.json">>), Rel(<<"new", "f.txt">>),
     Rel(<<"..", "..", "etc", "passwd">>), AbsPath(<<"etc", "passwd">>),
     Rel(<<"longname">>)}

\* the contents written: text, text with a carriage return, JSON and texts
\* of ReadLimit - 1 and ReadLimit characters
WriteCalls ==
    {FileArgs("write", Rel(<<"new.txt">>), c, <<>>, FALSE) :
        c \in {<<"h", "i", "\n">>, <<"a", "\r", "\n", "b">>,
               Rep("x", ReadLimit)}}
    \cup {FileArgs("write", Rel(<<"new.json">>), <<"[", "1", ",", " ", "2", "]">>, <<>>, FALSE)}
    \cup {FileArgs("write", p, <<"h", "i">>, <<>>, FALSE) :
             p \in {Rel(<<"new", "f.txt">>), Rel(<<>>), Rel(<<"a">>), Rel(<<"locked.txt">>),
                    Rel(<<"link">>), Rel(<<"..", "..", "etc", "passwd">>)}}

FileCalls ==
    {FileArgs("read", p, <<>>, <<"*">>, FALSE) : p \in FilePaths}
    \cup {FileArgs(op, p, <<>>, <<"*">>, FALSE) :
             op \in {"list", "info", "exists"},
             p \in {Rel(<<>>), Rel(<<"a">>), Rel(<<"link">>), Rel(<<"new.txt">>),
                    Rel(<<"..", "..", "etc", "passwd">>), Rel(<<"longname">>)}}
    \cup WriteCalls
    \cup {FileArgs("mkdir", p, <<>>, <<"*">>, FALSE) :
             p \in {Rel(<<"new">>), Rel(<<"a">>), Rel(<<"a", "n.txt", "sub">>),
                    Rel(<<"..", "..", "etc", "x">>)}}
    \cup {FileArgs("search", p, <<>>, <<"*", ".txt">>, rev) :
             p \in {Rel(<<>>), Rel(<<"nope">>), Rel(<<"..", "..", "etc">>)},
             rev \in BOOLEAN}
    \cup {FileArgs("search", Rel(<<"a">>), <<>>, <<"longname">>, FALSE)}
    \cup {FileArgs(op, Rel(<<>>), <<>>, <<"*">>, FALSE) : op \in {"help", "bogus"}}

\* the calls of the tool as a function
FileToolCalls ==
    {c \in FileCalls :
        \/ c.op \in {"list", "help"} /\ c.path \in {Rel(<<>>), Rel(<<"a">>)}
        \/ c.op = "read" /\ c.path \in {Rel(<<"a", "n.txt">>), Rel(<<"link">>)}
        \/ c.op = "write" /\ c.path = Rel(<<>>)}

\* the working directory of the calls of the file tool
InitFile ==
    /\ tools = register_tools
    /\ base_path = Home \o <<"proj">>
    /\ fs = InitFs(base_path)
    /\ conversation_history = <<>>
    /\ memory = NoMemory
    /\ successes = 0
    /\ last = NoCall

NextFile ==
    \/ \E c \in FileCalls : FileExecute(c)
    \/ \E c \in FileToolCalls : FileCall(c)

SpecFile == InitFile /\ [][NextFile]_vars

(***************************************************************************)
(* tools/file_tool.py: FileTool.__init__.  The module builds its instance  *)
(* with the default root "." (file_tool = FileTool()); a caller may build  *)
(* one on another root.  Path(base_path).absolute() puts a relative root   *)
(* under the working directory and makes no filesystem call: the root is   *)
(* neither resolved nor looked at.                                         *)
(***************************************************************************)
\* os.getcwd() of the process
Cwd == Home \o <<"proj">>

\* Path(root).absolute()
absolute(root) == IF root.abs THEN root.segs ELSE Cwd \o root.segs

\* FileTool(base_path=root)
FileTool_init(root) ==
    /\ base_path' = absolute(root)
    /\ last' = [NoCall EXCEPT !.tool = "file_tool", !.via = "__init__",
                              !.op = "__init__", !.path = root, !.returned = TRUE]
    /\ UNCHANGED <<tools, fs, conversation_history, memory, successes>>

\* the roots of the constructions: the working directory, a directory in it,
\* a name that does not exist, a regular file, and an absolute path that does
\* not exist
Roots ==
    {Rel(<<>>), Rel(<<"a">>), Rel(<<"nope">>), Rel(<<"a", "n.txt">>),
     AbsPath(<<"srv", "sandbox">>)}

\* the calls served by the instance
RootCalls ==
    {FileArgs(op, Rel(<<>>), <<>>, <<"*">>, FALSE) : op \in {"list", "exists", "info"}}
    \cup {FileArgs("read", Rel(<<"n.txt">>), <<>>, <<"*">>, FALSE),
          FileArgs("write", Rel(<<"new.txt">>), <<"h", "i">>, <<>>, FALSE),
          FileArgs("mkdir", Rel(<<"d">>), <<>>, <<"*">>, FALSE)}

InitRoot ==
    /\ tools = register_tools
    /\ base_path = Cwd
    /\ fs = InitFs(Cwd)
    /\ conversation_history = <<>>
    /\ memory = NoMemory
    /\ successes = 0
    /\ last = NoCall

NextRoot ==
    \/ \E root \in Roots : FileTool_init(root)
    \/ \E c \in RootCalls : FileExecute(c)

SpecRoot == InitRoot /\ [][NextRoot]_vars

(***************************************************************************)
(* The calculator called once on an expression: execute directly, or the   *)
(* tool as a function (BaseTool.__call__).  The expression of the call is  *)
(* drawn in the initial state and waits in last with via = "pending".      *)
(***************************************************************************)
\* the expressions of the calls: arithmetic, divisions by zero, names of
\* safe_dict and unknown names, conversions and statistics
CalcExpressions ==
    Expressions \cup
    {<<"1", "/", "3">>,
     <<"2", "**", "10">>,
     <<"9", "//", "2">>,
     <<"9", "%", "4">>,
     <<"1", ".", "5", "+", "1", ".", "5">>,
     <<"1", "//", "0">>,
     <<"1", "%", "0">>,
     <<"0", "**", "-", "1">>,
     <<"1", ".", "0", "/", "0">>,
     <<"10", "/", "(", "5", "-", "5", ")">>,
     <<"Decimal", "(", "1", ")", "/", "Decimal", "(", "0", ")">>,
     <<"Decimal", "(", "1", ")", "//", "0">>,
     <<"Decimal", "(", "0", ")", "/", "0">>,
     <<"Decimal", "(", "1", ")", "%", "0">>,
     <<"Decimal", "(", "1", ")">>,
     <<"Decimal", "(", "2", ".", "5", ")", "*", "2">>,
     <<"Decimal", "(", "10", ")", "/", "Decimal", "(", "4", ")">>,
     <<"Decimal", "(", "1", ")", "/", "Decimal", "(", "3", ")">>,
     <<"Decimal", "(", "1", ")", "+", "0", ".", "5">>,
     <<"max", "(", "1", ",", "2", ")">>,
     <<"MAX", "(", "1", ",", "2", ")">>,
     <<"min", "(", "3", ",", "1", ")">>,
     <<"round", "(", "2", ".", "5", ")">>,
     <<"sum", "(", "1", ",", "2", ")">>,
     <<"max">>,
     <<"pi">>,
     <<"abs", "(", "-", "3", ")">>,
     <<"sin", "(", "0", ")">>,
     <<"log", "(", "100", ")">>,
     <<"abs", ".", "__", "self", "__">>,
     <<"100", "cm", " ", "to", " ", "m">>,
     <<"1", "mile", " ", "to", " ", "km">>,
     <<"5", "ft", " ", "to", " ", "inch">>,
     <<"16", "oz", " ", "to", " ", "lb">>,
     <<"1", "mg", " ", "to", " ", "kg">>,
     <<"2", ".", "5", "kg", " ", "to", " ", "g">>,
     <<"10", " ", "KM", " ", "TO", " ", "M">>,
     <<"1", "c", " ", "to", " ", "m">>,
     <<"1", "ton", " ", "to", " ", "kg">>,
     <<"1", "kg", " ", "to", " ", "ton">>,
     <<"10", "KM", " ", "to", " ", "M">>,
     <<"3", "cm", " ", "to", " ", "mm">>,
     <<"1", ".", "2", ".", "3", "km", " ", "to", " ", "m">>,
     <<"-", "5", "km", " ", "to", " ", "m">>,
     <<"1", "km", " ", "to", " ", "m", " ", "to", " ", "cm">>,
     <<"100", "C", " ", "to", " ", "K">>,
     <<"212", "F", " ", "to", " ", "C">>,
     <<"32", "f", " ", "to", " ", "c">>,
     <<"0", ".", "1", "K", " ", "to", " ", "K">>,
     <<"0", ".", "1", "F", " ", "to", " ", "F">>,
     <<"0", ".", "1", "C", " ", "to", " ", "C">>,
     <<"100", "K", " ", "to", " ", "K">>,
     <<"-", "40", "C", " ", "to", " ", "F">>,
     <<"median", "(", "[", "1", ",", "2", "]", ")">>,
     <<"var", "(", "[", "1", ",", "2", ",", "3", "]", ")">>}

\* a call that has not been made yet
PendingCall(x) ==
    [NoCall EXCEPT !.tool = "calculator", !.via = "pending", !.expression = x]

InitCalc ==
    /\ tools = register_tools
    /\ base_path = Home \o <<"proj">>
    /\ fs = InitFs(base_path)
    /\ conversation_history = <<>>
    /\ memory = NoMemory
    /\ successes = 0
    /\ last \in {PendingCall(x) : x \in CalcExpressions}

Pending == last.tool = "calculator" /\ last.via = "pending"

\* calculator_tool.execute(expression=x) (via = "execute"), which runs
\* execute at once, and calculator_tool(expression=x) (via = "__call__"),
\* which runs it when validate_input accepted the keyword arguments
CalculatorInvoke(via) ==
    /\ Pending
    /\ \E x \in {last.expression} :
       \E accepted \in {via = "execute" \/ Calculator_validate_input(TRUE, x)} :
       \E out \in {IF accepted THEN Calculator_execute(x)
                   ELSE BaseTool_call(FALSE, Outcome(FALSE, NoResult, FALSE))} :
          last' = [Record("calculator", via, "execute", out)
                      EXCEPT !.expression = x, !.validated = (via = "__call__"),
                             !.accepted = (via = "__call__" /\ accepted),
                             !.executed = accepted]
    /\ UNCHANGED <<tools, base_path, fs, conversation_history, memory, successes>>

NextCalc == \E via \in {"execute", "__call__"} : CalculatorInvoke(via)

SpecCalc == InitCalc /\ [][NextCalc]_vars

(***************************************************************************)
(* The registry and the calls through it.                                  *)
(***************************************************************************)
Next ==
    \/ \E name \in ToolNames : get_tool(name)
    \/ get_all_tools
    \/ get_tool_names
    \/ get_tool_descriptions
    \/ \E c \in CustomCalls : create_custom_tool(c.name, c.doc, "custom_func")
    \/ \E x \in Expressions : invoke_calculator(x)
    \/ \E x \in Queries : invoke_time_tool(x)
    \/ \E x \in ListPaths : invoke_file_tool(x)
    \/ \E c \in WebCalls : invoke_web_tool(c.url, c.resp)

Spec == Init /\ [][Next]_vars

(***************************************************************************)
(* Calls of the file tool that store: write and mkdir, on paths that       *)
(* exist, that are absent, whose parent is absent or a regular file, and   *)
(* outside the root; the contents written include a text that cannot be    *)
(* encoded.                                                                *)
(***************************************************************************)
StoreWrites ==
    {FileArgs("write", p, c, <<>>, FALSE) :
        p \in {Rel(<<"new.txt">>), Rel(<<"a", "n.txt">>)},
        c \in {<<"h", "i", "\n">>, <<"a", "b", "<surrogate>">>}}
    \cup {FileArgs("write", p, <<"h", "i">>, <<>>, FALSE) :
             p \in {Rel(<<"new", "f.txt">>), Rel(<<"a", "n.txt", "x">>), Rel(<<>>),
                    Rel(<<"a">>), Rel(<<"locked.txt">>), Rel(<<"link">>),
                    Rel(<<"..", "..", "etc", "passwd">>)}}

StoreMkdirs ==
    {FileArgs("mkdir", p, <<>>, <<"*">>, FALSE) :
        p \in {Rel(<<"new">>), Rel(<<"new", "deep", "er">>), Rel(<<"a">>),
               Rel(<<"a", "n.txt">>), Rel(<<"a", "n.txt", "sub">>),
               Rel(<<"..", "..", "etc", "x">>)}}

NextStore == \E c \in StoreWrites \cup StoreMkdirs : FileExecute(c)

SpecStore == InitFile /\ [][NextStore]_vars

(***************************************************************************)
(* Calls of the web tool: execute called directly with one of the four     *)
(* operations that send a request.  The network answers each call with one *)
(* of the responses of the model; outcome records how it answered, refs    *)
(* the references (<a href>, <img src>) of the page it answered with.      *)
(***************************************************************************)
RequestOps == {"fetch", "links", "images", "api"}

\* the method keyword of the "api" operation (GET when it is not given)
Methods == {"GET", "POST", "PATCH"}

WebExecute(op, c, method) ==
    /\ \E out \in {WebTool_execute(op, c.url, method, <<>>, c.resp)} :
          last' = [Record("web_tool", "execute", op, out)
                      EXCEPT !.url = c.url, !.executed = TRUE,
                             !.requests = out.requests,
                             !.outcome = IF out.requests > 0 THEN c.resp.outcome ELSE "",
                             !.refs = CASE op = "links" -> c.resp.page.links
                                        [] op = "images" -> c.resp.page.images
                                        [] OTHER -> <<>>]
    /\ UNCHANGED <<tools, base_path, fs, conversation_history, memory, successes>>

InitWeb ==
    /\ tools = register_tools
    /\ base_path = Home \o <<"proj">>
    /\ fs = InitFs(base_path)
    /\ conversation_history = <<>>
    /\ memory = NoMemory
    /\ successes = 0
    /\ last = NoCall

NextWeb ==
    \E op \in RequestOps : \E c \in WebCalls :
        \E method \in IF op = "api" THEN Methods ELSE {"GET"} : WebExecute(op, c, method)

SpecWeb == InitWeb /\ [][NextWeb]_vars

(***************************************************************************)
(* Calls of the file tool that look: list, search and read, in a working   *)
(* directory that holds directories of ten, eleven and twenty-one files,   *)
(* an empty directory, a chain of directories six deep and text files of   *)
(* ReadLimit - 1, ReadLimit and ReadLimit + 1 characters.  A write adds    *)
(* the eleventh file of a directory of ten, a mkdir fills the empty one.   *)
(***************************************************************************)
\* the names of the files of the large directories
EntryNames ==
    <<"f01", "f02", "f03", "f04", "f05", "f06", "f07", "f08", "f09", "f10", "f11",
      "f12", "f13", "f14", "f15", "f16", "f17", "f18", "f19", "f20", "f21">>

\* the chain of directories below "deep", one more level at each step
Chain == <<"deep", "l1", "l2", "l3", "l4", "l5">>

BrowseDirs ==
    {<<"empty">>, <<"ten">>, <<"many">>, <<"crowd">>}
    \cup {SubSeq(Chain, 1, k) : k \in 1..Len(Chain)}

\* the regular files: each directory of the chain holds a file "x"
BrowseFiles ==
    {<<"ten", EntryNames[i]>> : i \in 1..ListLimit}
    \cup {<<"many", EntryNames[i]>> : i \in 1..ListLimit + 1}
    \cup {<<"crowd", EntryNames[i]>> : i \in 1..SearchLimit + 1}
    \cup {Append(SubSeq(Chain, 1, k), "x") : k \in 1..Len(Chain)}
    \cup {<<"under">>, <<"exact">>, <<"over">>, <<"lines">>}

BrowseEntries ==
    [p \in BrowseDirs \cup BrowseFiles |->
        CASE p \in BrowseDirs -> Dir
          [] p = <<"under">> -> File(Rep("x", ReadLimit - 1))
          [] p = <<"exact">> -> File(Rep("x", ReadLimit))
          [] p = <<"over">> -> File(Rep("x", ReadLimit + 1))
          [] p = <<"lines">> -> File(<<"a", "\n", "b">>)
          [] OTHER -> File(<<"x">>)]

BrowseFs(base) ==
    LET inside == {base \o q : q \in DOMAIN BrowseEntries}
        ancestors == {SubSeq(base, 1, k) : k \in 0..Len(base)}
    IN [p \in DOMAIN SystemEntries \cup ancestors \cup inside |->
            IF p \in inside THEN BrowseEntries[SubSeq(p, Len(base) + 1, Len(p))]
            ELSE IF p \in DOMAIN SystemEntries THEN SystemEntries[p]
            ELSE Dir]

\* the directories the calls name
BrowsePaths ==
    {Rel(<<>>), Rel(<<"empty">>), Rel(<<"ten">>), Rel(<<"many">>), Rel(<<"crowd">>),
     Rel(<<"deep">>), Rel(<<"deep", "l1">>), Rel(<<"deep", "l1", "l2">>),
     Rel(<<"under">>), Rel(<<"nope">>), Rel(<<"..", "..", "etc">>)}

BrowseCalls ==
    {FileArgs("list", p, <<>>, <<"*">>, FALSE) : p \in BrowsePaths}
    \cup {FileArgs("search", p, <<>>, <<"*">>, rev) : p \in BrowsePaths, rev \in BOOLEAN}
    \cup {FileArgs("search", p, <<>>, <<"x">>, FALSE) :
             p \in {Rel(<<>>), Rel(<<"deep">>), Rel(<<"deep", "l1", "l2">>), Rel(<<"ten">>)}}
    \cup {FileArgs("search", Rel(<<"crowd">>), <<>>, <<"f01">>, FALSE)}
    \cup {FileArgs("read", p, <<>>, <<"*">>, FALSE) :
             p \in {Rel(<<"under">>), Rel(<<"exact">>), Rel(<<"over">>), Rel(<<"lines">>),
                    Rel(<<"ten", "f01">>), Rel(<<"empty">>), Rel(<<"nope">>)}}
    \cup {FileArgs("write", Rel(<<"ten", "f11">>), <<"x">>, <<>>, FALSE),
          FileArgs("mkdir", Rel(<<"empty", "sub">>), <<>>, <<"*">>, FALSE)}

InitBrowse ==
    /\ tools = register_tools
    /\ base_path = Home \o <<"proj">>
    /\ fs = BrowseFs(base_path)
    /\ conversation_history = <<>>
    /\ memory = NoMemory
    /\ successes = 0
    /\ last = NoCall

NextBrowse == \E c \in BrowseCalls : FileExecute(c)

SpecBrowse == InitBrowse /\ [][NextBrowse]_vars

(***************************************************************************)
(* Calls of the web tool that extract: links and images of pages whose     *)
(* references are root-relative, protocol-relative, document-relative,     *)
(* absolute, and of other schemes; one page holds more references than     *)
(* either cap.                                                             *)
(***************************************************************************)
\* the references of the pages, each with the text of the anchor or the alt
\* of the image
ExtractRefs ==
    {Ref(<<"/", "a">>, <<"A">>),
     Ref(<<"//", "cdn.org", "/", "i.png">>, <<>>),
     Ref(<<"page.html">>, <<"P">>),
     Ref(<<"..", "/", "x">>, <<>>),
     Ref(<<"https://", "other.org">>, <<"O">>),
     Ref(<<"mailto:", "x">>, <<>>),
     Ref(<<"data:image", "x">>, <<"I">>)}

\* a page of twelve root-relative references
ManyRefs == [i \in 1..LinksShown + 2 |-> Ref(<<"/", EntryNames[i]>>, <<>>)]

ExtractPages ==
    {Page(<<>>, <<>>, refs, refs, 0, NoJson) :
        refs \in {<<>>, ManyRefs} \cup {<<r>> : r \in ExtractRefs}
                 \cup {<<r, q>> : r \in ExtractRefs, q \in ExtractRefs}}

ExtractCalls ==
    {[url |-> u, resp |-> Response("ok", 0, 200, pg)] :
        u \in {<<"http://", "example.com", "/">>,
               <<"https://", "example.com", "/", "dir", "/", "p.html">>},
        pg \in ExtractPages}
    \cup {[url |-> <<"http://", "example.com", "/">>,
           resp |-> Response("timeout", 0, 0, EmptyPage)]}

NextExtract ==
    \E op \in {"links", "images"} : \E c \in ExtractCalls : WebExecute(op, c, "GET")

SpecExtract == InitWeb /\ [][NextExtract]_vars

(***************************************************************************)
(* tools/__init__.py: BaseTool.__call__ with keyword arguments of any      *)
(* type.  The keyword arguments are a record of the keys a caller may      *)
(* pass; each is absent, a text, a path, a name or an integer (t tells     *)
(* which).                                                                 *)
(* validate_input answers "accept" or "reject", or raises ("raise");       *)
(* execute returns, or raises an Exception or a SystemExit (exc).          *)
(***************************************************************************)
Absent == [t |-> "absent", text |-> <<>>, path |-> NoPath, name |-> "", int |-> 0]

StrArg(v) == [Absent EXCEPT !.t = "str", !.text = v]

PathArg(p) == [Absent EXCEPT !.t = "path", !.path = p]

NameArg(n) == [Absent EXCEPT !.t = "name", !.name = n]

IntArg(n) == [Absent EXCEPT !.t = "int", !.int = n]

NoKwargs ==
    [operation |-> Absent, url |-> Absent, expression |-> Absent, path |-> Absent,
     query |-> Absent, extra |-> Absent]

\* the keys of kwargs
Keys(kwargs) == {k \in DOMAIN kwargs : kwargs[k].t # "absent"}

\* isinstance(x, str)
IsStr(x) == x.t \in {"str", "path", "name"}

\* bool(input_data.get(key, ""))
Truthy(x) ==
    CASE x.t = "absent" -> FALSE
      [] x.t = "int" -> x.int # 0
      [] x.t = "path" -> x.path # NoPath
      [] x.t = "name" -> x.name # ""
      [] OTHER -> x.text # <<>>

\* the text of a keyword argument that is a text, "" otherwise
TextOf(x) == x.text

PathOf(x) == x.path

\* self.validate_input(kwargs) of each tool; BaseTool.validate_input, which
\* the time tool inherits, returns True
validate_input(tool, f, base, kwargs) ==
    CASE tool = "calculator" ->
            IF Calculator_validate_input(Truthy(kwargs.expression) /\ IsStr(kwargs.expression),
                                         TextOf(kwargs.expression))
            THEN "accept" ELSE "reject"
      [] tool = "web_tool" ->
            IF ~(Truthy(kwargs.operation) /\ IsStr(kwargs.operation)) THEN "reject"
            \* url.startswith(...) on a value that is not a string
            ELSE IF Truthy(kwargs.url) /\ ~IsStr(kwargs.url) THEN "raise"
            ELSE IF WebTool_validate_input(TRUE, TextOf(kwargs.url)) THEN "accept"
            ELSE "reject"
      [] tool = "file_tool" ->
            IF ~(Truthy(kwargs.operation) /\ IsStr(kwargs.operation)) THEN "reject"
            \* Path(path) raises inside the try of validate_input
            ELSE IF Truthy(kwargs.path) /\ ~IsStr(kwargs.path) THEN "reject"
            ELSE IF FileTool_validate_input(f, base, TRUE, PathOf(kwargs.path)) THEN "accept"
            ELSE "reject"
      [] OTHER -> "accept"

\* what a call of execute gives: exc is "" when it returned
XOut(exc, result, evalReached, requests, touched, f) ==
    [exc |-> exc, result |-> result, evalReached |-> evalReached,
     requests |-> requests, touched |-> touched, fs |-> f]

\* TypeError of the call itself (a keyword execute does not take, or a
\* parameter without a value) and AttributeError of query.lower()
RaisedException(f) == XOut("Exception", NoResult, FALSE, 0, {}, f)

\* the outcome of an execute that ran, as __call__ sees it
CalculatorOut(o, f) ==
    XOut(IF o.raised THEN "SystemExit" ELSE "", o.result, o.evalReached, 0, {}, f)

WebOut(o, f) == XOut("", o.result, FALSE, o.requests, {}, f)

FileOut(o) == XOut("", o.result, FALSE, 0, o.touched, o.fs)

\* self.execute(**kwargs)
tool_execute(tool, f, base, kwargs, resp) ==
    CASE tool = "calculator" ->
            IF Keys(kwargs) # {"expression"} THEN RaisedException(f)
            ELSE CalculatorOut(Calculator_execute(TextOf(kwargs.expression)), f)
      [] tool = "time_tool" ->
            IF Keys(kwargs) # {"query"} \/ ~IsStr(kwargs.query) THEN RaisedException(f)
            ELSE XOut("", TimeTool_execute(TextOf(kwargs.query)), FALSE, 0, {}, f)
      [] tool = "web_tool" ->
            WebOut(WebTool_execute(kwargs.operation.name, TextOf(kwargs.url), "GET", <<>>,
                                   resp), f)
      [] tool = "file_tool" ->
            FileOut(FileTool_execute(f, base, kwargs.operation.name, PathOf(kwargs.path),
                                     <<>>, <<"*">>, FALSE))

\* the "except Exception" of __call__ around execute: an Exception becomes
\* the failure text, anything else leaves __call__
CallExecuted(o) ==
    IF o.exc = "Exception"
    THEN [threw |-> "execute", raised |-> FALSE, accepted |-> TRUE,
          out |-> [o EXCEPT !.result = Result("execution_failed", <<"<exception text>">>)]]
    ELSE [threw |-> IF o.exc = "" THEN "" ELSE "execute",
          raised |-> o.exc # "", accepted |-> TRUE, out |-> o]

\* the body of __call__ once validate_input has answered v
CallValidated(v, tool, f, base, kwargs, resp) ==
    IF v = "raise"
    THEN [threw |-> "validate_input", raised |-> FALSE, accepted |-> FALSE,
          out |-> XOut("", Result("execution_failed", <<"<exception text>">>),
                       FALSE, 0, {}, f)]
    ELSE IF v = "reject"
    THEN [threw |-> "", raised |-> FALSE, accepted |-> FALSE,
          out |-> XOut("", BaseTool_call(FALSE, NoResult).result, FALSE, 0, {}, f)]
    ELSE CallExecuted(tool_execute(tool, f, base, kwargs, resp))

\* a __call__ that runs execute whatever validate_input answers
call_unvalidated(tool, f, base, kwargs, resp) ==
    CallExecuted(tool_execute(tool, f, base, kwargs, resp))

\* BaseTool.__call__: [threw, raised, accepted, out]
BaseTool_dunder_call(tool, f, base, kwargs, resp) ==
    CallValidated(validate_input(tool, f, base, kwargs), tool, f, base, kwargs, resp)

\* tool(**kwargs)
ToolCall(c) ==
    /\ \E r \in {BaseTool_dunder_call(c.tool, fs, base_path, c.kwargs, c.resp)} :
          /\ last' = [NoCall EXCEPT !.tool = c.tool, !.via = "__call__", !.op = "__call__",
                                    !.kwargs = c.kwargs, !.validated = TRUE,
                                    !.accepted = r.accepted, !.executed = r.accepted,
                                    !.threw = r.threw, !.raised = r.raised,
                                    !.returned = ~r.raised, !.result = r.out.result,
                                    !.evalReached = r.out.evalReached,
                                    !.requests = r.out.requests,
                                    !.touched = r.out.touched]
          /\ fs' = r.out.fs
    /\ UNCHANGED <<tools, base_path, conversation_history, memory, successes>>

\* the keyword arguments of the calls: texts the validation accepts and
\* rejects, values that are not strings, keys left out and a key too many
CalculatorKwargs ==
    {[NoKwargs EXCEPT !.expression = StrArg(x)] : x \in Expressions}
    \cup {NoKwargs,
          [NoKwargs EXCEPT !.expression = IntArg(5)],
          [NoKwargs EXCEPT !.expression = StrArg(<<"2", "+", "3">>), !.extra = IntArg(1)]}

TimeKwargs ==
    {[NoKwargs EXCEPT !.query = StrArg(q)] : q \in Queries}
    \cup {NoKwargs, [NoKwargs EXCEPT !.query = IntArg(5)]}

WebKwargs ==
    {[NoKwargs EXCEPT !.operation = NameArg(op), !.url = StrArg(u)] :
        op \in {"fetch", "links", "help"}, u \in Urls}
    \cup {[NoKwargs EXCEPT !.url = StrArg(<<"http://", "example.com", "/">>)],
          [NoKwargs EXCEPT !.operation = IntArg(5)],
          [NoKwargs EXCEPT !.operation = NameArg("fetch"), !.url = IntArg(5)]}

FileKwargs ==
    {[NoKwargs EXCEPT !.operation = NameArg(op), !.path = PathArg(p)] :
        op \in {"list", "read", "mkdir", "help"}, p \in ListPaths}
    \cup {[NoKwargs EXCEPT !.path = PathArg(Rel(<<"a">>))],
          [NoKwargs EXCEPT !.operation = NameArg("list")],
          [NoKwargs EXCEPT !.operation = NameArg("list"), !.path = IntArg(5)]}

ToolCalls ==
    {[tool |-> "calculator", kwargs |-> k, resp |-> Response("ok", 0, 200, EmptyPage)] :
        k \in CalculatorKwargs}
    \cup {[tool |-> "time_tool", kwargs |-> k, resp |-> Response("ok", 0, 200, EmptyPage)] :
             k \in TimeKwargs}
    \cup {[tool |-> "web_tool", kwargs |-> k, resp |-> r] :
             k \in WebKwargs,
             r \in {Response("ok", 0, 200, EmptyPage), Response("timeout", 0, 0, EmptyPage)}}
    \cup {[tool |-> "file_tool", kwargs |-> k, resp |-> Response("ok", 0, 200, EmptyPage)] :
             k \in FileKwargs}

NextCall == \E c \in ToolCalls : ToolCall(c)

SpecCall == InitFile /\ [][NextCall]_vars

(***************************************************************************)
(* agents/qwen_agent.py: query, get_history and clear_history.  The        *)
(* variable successes is an auxiliary one: it counts the queries that      *)
(* returned success = True since the last clear_history.                   *)
(***************************************************************************)
\* the longest history the model lets query build
MaxHistory == 3

\* AGENT_CONFIG["default_model"]
model_name == "qwen-turbo"

UserInputs == {<<>>, <<" ">>, <<" ", "\n">>, <<"hi">>, <<" ", "hi", " ">>}

Answers == {<<"four">>}

\* datetime.now() at the start of the try block and after the invoke
Clock == {<<1, 2>>}

\* what self.agent_executor.invoke(inputs) does: it returns a dict, with
\* or without the key "output", or it raises
Invocations ==
    {[kind |-> "dict", has_output |-> TRUE, output |-> a] : a \in Answers}
    \cup {[kind |-> "dict", has_output |-> FALSE, output |-> <<>>],
          [kind |-> "raise", has_output |-> FALSE, output |-> <<>>]}

\* not user_input or not user_input.strip()
query_blank(user_input) == user_input = <<>> \/ Strip(user_input) = <<>>

\* response.get("output", "")
response_get_output(response) ==
    IF response.has_output THEN response.output ELSE <<>>

HistoryEntry(user_input, response, clock) ==
    [timestamp |-> clock[1], user |-> user_input,
     assistant |-> response_get_output(response),
     elapsed_time |-> clock[2] - clock[1], model |-> model_name]

\* a try block that records the exchange before the executor has answered
query_try_eager(history, user_input, response, clock) ==
    [success |-> response.kind # "raise", invoked |-> TRUE,
     error |-> IF response.kind = "raise" THEN "query_error" ELSE "",
     history |-> Append(history, HistoryEntry(user_input, response, clock))]

\* the try block of query: invoke, then append the entry; an exception of
\* the invoke leaves the block before the append
query_try(history, user_input, response, clock) ==
    IF response.kind = "raise"
    THEN [success |-> FALSE, invoked |-> TRUE, error |-> "query_error",
          history |-> history]
    ELSE [success |-> TRUE, invoked |-> TRUE, error |-> "",
          history |-> Append(history, HistoryEntry(user_input, response, clock))]

query_outcome(history, user_input, response, clock) ==
    IF query_blank(user_input)
    THEN [success |-> FALSE, invoked |-> FALSE, error |-> "empty_input",
          history |-> history]
    ELSE query_try(history, user_input, response, clock)

\* the chat memory of the executor holds two more messages after an invoke
\* that returned
MemoryAfter(o) ==
    IF memory.present /\ o.success
    THEN [memory EXCEPT !.messages = @ + 2] ELSE memory

QueryDone(user_input, o) ==
    /\ conversation_history' = o.history
    /\ memory' = MemoryAfter(o)
    /\ successes' = IF o.success THEN successes + 1 ELSE successes
    /\ last' = [NoCall EXCEPT !.via = "query", !.user_input = user_input,
                   !.returned = TRUE, !.success = o.success,
                   !.error = o.error, !.invoked = o.invoked]
    /\ UNCHANGED <<tools, base_path, fs>>

query(user_input, response, clock) ==
    /\ Len(conversation_history) < MaxHistory
           \/ query_blank(user_input) \/ response.kind = "raise"
    /\ QueryDone(user_input,
                 query_outcome(conversation_history, user_input, response, clock))

\* seq[start:] of Python: a negative start counts from the end
SliceFrom(seq, start) ==
    SubSeq(seq, (IF start < 0 THEN Max(start + Len(seq), 0)
                              ELSE Min(start, Len(seq))) + 1, Len(seq))

\* self.conversation_history[-limit:] if self.conversation_history else []
get_history_slice(history, limit) ==
    IF history # <<>> THEN SliceFrom(history, 0 - limit) ELSE <<>>

Limits == (0 - 1)..(MaxHistory + 1)

get_history(limit) ==
    /\ last' = [NoCall EXCEPT !.via = "get_history", !.limit = limit,
                   !.returned = TRUE,
                   !.history = get_history_slice(conversation_history, limit)]
    /\ UNCHANGED <<tools, base_path, fs, conversation_history, memory, successes>>

clear_history ==
    /\ conversation_history' = <<>>
    /\ memory' = IF memory.present THEN [memory EXCEPT !.messages = 0] ELSE memory
    /\ successes' = 0
    /\ last' = [NoCall EXCEPT !.via = "clear_history", !.returned = TRUE]
    /\ UNCHANGED <<tools, base_path, fs>>

\* _initialize_memory: the window memory, or None when its construction failed
InitAgent ==
    /\ tools = register_tools
    /\ base_path \in {Cwd}
    /\ fs = InitFs(base_path)
    /\ conversation_history = <<>>
    /\ memory \in {NoMemory, [present |-> TRUE, messages |-> 0]}
    /\ successes = 0
    /\ last = NoCall

NextAgent ==
    \/ \E u \in UserInputs, r \in Invocations, c \in Clock : query(u, r, c)
    \/ \E limit \in Limits : get_history(limit)
    \/ clear_history

SpecAgent == InitAgent /\ [][NextAgent]_vars

(***************************************************************************)
(* Properties.                                                             *)
(***************************************************************************)
\* a call of a registered tool function
RegistryCall == last.via = "registry"

\* C1: for every registered tool and every string argument, invoking the
\* registered function returns a string result and never raises.
C1_NeverRaises == RegistryCall => (last.returned /\ ~last.raised)

\* C2: an expression that contains a deny-listed pattern, evaluated through
\* the calculator tool, gets the validation failure and never reaches eval.
C2_DenyListedNeverEvaluated ==
    (last.tool = "calculator" /\ dangerous_patterns(last.expression))
        => (last.result.msg = "validation_failed" /\ ~last.evalReached)

\* the canonical path of an argument of the file tool
Canonical(path) ==
    IF path.abs THEN Resolve(fs, <<>>, path.segs) ELSE Resolve(fs, base_path, path.segs)

InSandbox(p) == IsPrefix(base_path, p)

PermissionFailures ==
    {"no_permission_read", "no_permission_write", "no_permission_list",
     "no_permission_info", "no_permission_mkdir", "no_permission_search",
     "check_failed", "validation_failed"}

\* C3: every path a file operation performs a filesystem call on is, once
\* canonical, the sandbox root or a descendant of it, and a request whose
\* canonical path lies outside fails without touching the filesystem.
C3_Confined ==
    (last.tool = "file_tool" /\ last.op \in FileOps)
        => /\ \A p \in last.touched : InSandbox(p)
           /\ ~InSandbox(Canonical(last.path))
                  => (last.result.msg \in PermissionFailures /\ last.touched = {})

\* C4: a fetch whose URL has no explicit http/https scheme or whose host is
\* a loopback or private-network address is refused and issues no request.
C4_NoInternalRequest ==
    (last.tool = "web_tool"
     /\ (~StartsWithHttp(last.url) \/ IsInternalHost(UrlHost(last.url))))
        => (last.result.msg \in {"validation_failed", "request_error"}
            /\ last.requests = 0)

\* the system and user-profile directories of restricted_paths
DenyListed(p) ==
    \E i \in 1..Len(restricted_paths) :
        restricted_paths[i] # <<>> /\ RelativeTo(p, restricted_paths[i])

\* C5: a file operation on a path whose canonical form is under a
\* deny-listed directory is rejected and performs no filesystem access,
\* also when the path is inside the sandbox root.
C5_RestrictedRejected ==
    (last.tool = "file_tool" /\ last.op \in FileOps /\ DenyListed(Canonical(last.path)))
        => (last.result.msg \in PermissionFailures /\ last.touched = {})

\* C6: on every dispatch through the registry the validation of the tool
\* runs before its execute, and execute runs only if validation accepted.
C6_ValidatedBeforeExecute ==
    (RegistryCall /\ last.executed) => (last.validated /\ last.accepted)

\* a lookup of a name that is not registered
UnknownLookup == last.via = "get_tool" /\ last.name \notin DOMAIN tools

ReadHeadingLen == 6

\* len("\n...(内容截断，只显示前5000字符)")
ReadMarkerLen == 21

\* the longest text the caps of the code give a result: the heading, the
\* characters of a capped read and the truncation marker
ResultCap == ReadHeadingLen + ReadLimit + ReadMarkerLen

StructuredSuffixes == {".json", ".csv", ".xlsx", ".xls"}

\* a read of the path that the call before it wrote
ReadAfterWrite == last.tool = "file_tool" /\ last.op = "read" /\ last.follows_write

ProbePaths == FilePaths \cup {c.path : c \in FileCalls}

\* after a successful write or mkdir, a call that names a path outside the
\* root
EscapeAfterChange ==
    /\ last.tool = "file_tool"
    /\ ~get_safe_path(fs, base_path, last.path).ok
    /\ fs # InitFs(base_path)

\* C11: the sandbox root is left unchanged by every file operation and
\* every validation call, successful or not, and a path that _get_safe_path
\* rejects as outside the root is still rejected after any operation.
C11_RootFixed ==
    [][/\ base_path' = base_path
       /\ \A p \in ProbePaths :
              ~get_safe_path(fs, base_path, p).ok
                  => ~get_safe_path(fs', base_path', p).ok]_vars

C11_Witness ==
    /\ EscapeAfterChange
    /\ last.path = Rel(<<"..", "..", "etc", "passwd">>)
    /\ last.result.msg \in PermissionFailures
    /\ last.touched = {}
    /\ base_path = Home \o <<"proj">>

\* a call of the calculator that has been made (execute or __call__)
CalculatorDone == last.tool = "calculator" /\ last.via \in {"execute", "__call__"}

\* the function names and constants the allow-list of C12 names, as a caller
\* writes them
AllowListed == {"sin", "cos", "tan", "sqrt", "log", "ln", "log10", "exp", "abs", "pi", "e"}

\* the identifiers written in an expression
Identifiers(expr) == {expr[i] : i \in {j \in 1..Len(expr) : IsNameTok(expr[j])}}

\* C12: in the arithmetic evaluation path every identifier other than the
\* allow-listed functions (and the constants pi and e) fails to resolve: an
\* expression that names one yields a failure result.
C12_OnlyAllowListed ==
    (/\ CalculatorDone
     /\ last.evalReached
     /\ \E t \in Identifiers(last.expression) : Lower(t) \notin AllowListed)
        => (last.returned /\ last.result.msg # "calculation_result")

\* the exception the evaluation of an expression raises, or "" when it
\* returns a value
EvalException(expression) ==
    LET v == evaluate_math(preprocess_expression(expression))
    IN IF IsErr(v) THEN v.id ELSE ""

\* the exceptions Python raises for a division or a modulo by zero: of ints
\* and floats, and of Decimals (decimal.DivisionByZero is a
\* ZeroDivisionError; DivisionUndefined is 0/0; InvalidOperation is x % 0)
ZeroDivisorExceptions == {"ZeroDivisionError", "DivisionUndefined", "InvalidOperation"}

\* C13: an arithmetic expression whose evaluation divides by zero yields the
\* DivisionByZero failure result, and the call returns.
C13_DivisionByZero ==
    (/\ CalculatorDone
     /\ last.evalReached
     /\ EvalException(last.expression) \in ZeroDivisorExceptions)
        => (last.returned /\ last.result.msg = "division_by_zero")

\* a root an accessor can work in: an existing directory
UsableRoot(f, root) == Exists(f, root) /\ f[root].kind = "dir"

\* C14: constructing the file accessor on an unusable root (nonexistent or
\* not a directory) fails at construction, and no call is served by an
\* accessor whose root is unusable.
C14_UnusableRootFails ==
    /\ (last.via = "__init__" /\ ~UsableRoot(fs, absolute(last.path))) => last.raised
    /\ (last.tool = "file_tool" /\ last.executed) => UsableRoot(fs, base_path)

\* the request an expression of the form '<number><unit> to <unit>' makes:
\* an unsigned decimal numeral, a unit of letters, the word "to" between
\* spaces and a unit of letters; the units in lower case
ConversionRequest(x) ==
    LET k == RunLen(x, IsNumChar)
        num == ParseFloat(SubSeq(x, 1, k))
    IN IF /\ k >= 1
          /\ Len(x) = k + 5
          /\ num.ok
          /\ IsAlpha(x[k + 1]) /\ IsAlpha(x[k + 5])
          /\ x[k + 2] = " " /\ Lower(x[k + 3]) = "to" /\ x[k + 4] = " "
       THEN [ok |-> TRUE, n |-> num.n, d |-> num.d,
             from_unit |-> Lower(x[k + 1]), to_unit |-> Lower(x[k + 5])]
       ELSE [ok |-> FALSE, n |-> 0, d |-> 1, from_unit |-> "", to_unit |-> ""]

\* the quotient qr of a division by D, rounded to the nearest integer, ties
\* to even
RoundDiv(qr, D) ==
    IF NLess(D, NAddC(qr.r, qr.r, 0)) \/ (NAddC(qr.r, qr.r, 0) = D /\ Limb(qr.q, 1) % 2 = 1)
    THEN NAddC(qr.q, <<>>, 1) ELSE qr.q

\* the fraction N / D written with k fractional digits
ExactFixed(N, D, k) == NFixed(RoundDiv(NDivMod(NMul(N, NPow10(k)), D), D), k)

\* value * factor(from) / factor(to) over the rationals, for the factors
\* ff and tf of the unit table, written with k fractional digits
ExactScale(n, d, ff, tf, k) ==
    ExactFixed(NMul(NMul(NFromInt(n), NFromInt(ff[1])), NFromInt(tf[2])),
               NMul(NMul(NFromInt(d), NFromInt(ff[2])), NFromInt(tf[1])), k)

\* the factor of a unit in a category of the unit table
TableFactor(category, unit) ==
    IF category = "length" THEN UnitsLength[unit] ELSE UnitsWeight[unit]

\* the number a conversion result shows after the "=" sign
ShownResult(body) ==
    LET p == CHOOSE i \in 1..Len(body) : body[i] = "="
    IN SubSeq(body, p + 2, Len(body) - 1)

\* the digits the code writes for a linear conversion
ShownDigits == 4

\* C15: a conversion '<number><unit> to <unit>' whose units are not both
\* temperature symbols gives value * factor(from) / factor(to) when a
\* category of the unit table holds both units, and the unsupported-unit
\* failure when no category holds both.
C15_LinearConversion ==
    LET req == ConversionRequest(last.expression)
        category == UnitCategory(req.from_unit, req.to_unit)
    IN (/\ CalculatorDone
        /\ last.executed
        /\ req.ok
        /\ ~(req.from_unit \in UnitsTemperature /\ req.to_unit \in UnitsTemperature))
           => /\ last.returned
              /\ IF category = "" THEN last.result.msg = "unsupported_conversion"
                 ELSE /\ last.result.msg = "unit_conversion"
                      /\ ShownResult(last.result.body)
                            = ExactScale(req.n, req.d, TableFactor(category, req.from_unit),
                                         TableFactor(category, req.to_unit), ShownDigits)

\* the pivot formula over the rationals, a fraction being <<numerator,
\* denominator>>: to Celsius (f - 32) * 5/9 and k - 273.15, from Celsius
\* c * 9/5 + 32 and c + 273.15
PivotToCelsius(n, d, from_unit) ==
    CASE from_unit = "c" -> <<n, d>>
      [] from_unit = "f" -> <<(n - 32 * d) * 5, 9 * d>>
      [] from_unit = "k" -> <<100 * n - 27315 * d, 100 * d>>

PivotFromCelsius(c, to_unit) ==
    CASE to_unit = "c" -> c
      [] to_unit = "f" -> <<c[1] * 9 + 32 * 5 * c[2], 5 * c[2]>>
      [] to_unit = "k" -> <<100 * c[1] + 27315 * c[2], 100 * c[2]>>

\* str() of the float nearest to the fraction q
FractionStr(q) == DRepr(DFromRat(q[1], q[2]))

\* C16: a conversion between two temperature symbols, in any letter case,
\* gives the value of the pivot formula through Celsius ("0C to F" gives
\* 32), and the conversion of a unit to itself gives the input value.
C16_TemperaturePivot ==
    LET req == ConversionRequest(last.expression)
    IN (/\ CalculatorDone
        /\ last.executed
        /\ req.ok
        /\ req.from_unit \in UnitsTemperature /\ req.to_unit \in UnitsTemperature)
           => /\ last.returned
              /\ last.result.msg = "temperature_conversion"
              /\ ShownResult(last.result.body)
                    = FractionStr(PivotFromCelsius(
                          PivotToCelsius(req.n, req.d, req.from_unit), req.to_unit))
              /\ req.from_unit = req.to_unit
                    => ShownResult(last.result.body) = FractionStr(<<req.n, req.d>>)

\* the results that carry a number, by path
ArithmeticResults == {"calculation_result"}

ConversionResults == {"unit_conversion", "temperature_conversion"}

StatisticResults == {"mean", "median", "stdev", "variance"}

\* the text of the number in a result: the whole text of an arithmetic
\* result, the text after "=" of a conversion, the text before the data
\* of a statistic
ResultNumber(result) ==
    IF result.msg \in ArithmeticResults THEN result.body
    ELSE IF result.msg \in ConversionResults THEN ShownResult(result.body)
    ELSE SubSeq(result.body, 1, RunLen(result.body, LAMBDA t : t # " "))

\* a decimal numeral: digits with an optional sign and decimal point
IsNumeral(num) ==
    /\ num # <<>>
    /\ \A i \in 1..Len(num) : num[i] \in {Digit(j) : j \in 0..9} \cup {".", "-"}
    /\ \E i \in 1..Len(num) : num[i] \notin {".", "-"}

\* the fractional digits the numeric formatting keeps
RoundDigits == 6

\* an integer is written without a fraction; any other number with at most
\* RoundDigits fractional digits, which are not all zero
WellRendered(num) ==
    \A p \in 1..Len(num) :
        num[p] = "." =>
            /\ Len(num) - p <= RoundDigits
            /\ \E i \in p + 1..Len(num) : num[i] # "0"

\* C17: every numeric result of the calculator, whichever path produced it
\* (arithmetic, unit conversion or statistic), is written as an integer
\* when it is integral and otherwise rounded to 6 fractional digits.
C17_NumericRendering ==
    (/\ CalculatorDone
     /\ last.executed
     /\ last.returned
     /\ last.result.msg \in ArithmeticResults \cup ConversionResults \cup StatisticResults
     /\ IsNumeral(ResultNumber(last.result)))
        => WellRendered(ResultNumber(last.result))

\* a call of one of the operations of the web tool that send a request
RequestDone == last.tool = "web_tool" /\ last.via = "execute" /\ last.op \in RequestOps

\* C18: a fetch, links, images or api call sends at most one HTTP request,
\* and when the request runs into the timeout the call returns the timeout
\* failure result.
C18_SingleRequest ==
    RequestDone =>
        /\ last.requests <= 1
        /\ last.outcome = "timeout"
              => (last.returned /\ last.result.msg = "request_timeout")

\* the step is a write of the file tool
WriteStep == last'.tool = "file_tool" /\ last'.op = "write" /\ last'.executed

\* the failures a write reports
WriteFailures == {"parent_missing", "write_failed", "no_permission_write"}

\* the file the path names can be written in f: the path is inside the
\* root, its parent is a directory the process may write in, and the path
\* itself is absent or a regular file the process may write
Writable(f, target) ==
    /\ target.ok
    /\ Exists(f, Parent(target.path))
    /\ f[Parent(target.path)].kind = "dir" /\ ~f[Parent(target.path)].deny
    /\ Exists(f, target.path) => (f[target.path].kind = "file" /\ ~f[target.path].deny)

\* C19: a write to a path whose parent directory does not exist returns a
\* failure and leaves the filesystem unchanged; when the parent exists (and
\* the file can be written) the file is created or overwritten and its
\* content is exactly the content given.
C19_WriteExact ==
    [][WriteStep =>
          LET target == get_safe_path(fs, base_path, last'.path)
          IN /\ (target.ok /\ ~Exists(fs, Parent(target.path)))
                   => (last'.result.msg \in WriteFailures /\ fs' = fs)
             /\ Writable(fs, target)
                   => /\ Exists(fs', target.path)
                      /\ fs'[target.path].kind = "file"
                      /\ fs'[target.path].content = last'.content]_vars

\* the step is a mkdir of the file tool
MkdirStep == last'.tool = "file_tool" /\ last'.op = "mkdir" /\ last'.executed

\* the step repeats the mkdir of the call before it
MkdirAgain == MkdirStep /\ last.op = "mkdir" /\ last.executed /\ last.path = last'.path

\* the paths from the root down to p, p included
Upto(p) == {SubSeq(p, 1, k) : k \in 0..Len(p)}

\* the deepest path towards p that exists in f
Nearest(f, p) ==
    CHOOSE a \in Upto(p) :
        Exists(f, a) /\ \A b \in Upto(p) : Exists(f, b) => Len(b) <= Len(a)

\* directories can be made below the deepest existing path towards p: it is
\* a directory the process may write in
Creatable(f, p) == f[Nearest(f, p)].kind = "dir" /\ ~f[Nearest(f, p)].deny

\* g is f with p and every missing path towards p added as a directory,
\* and nothing else changed
Created(f, g, p) ==
    /\ DOMAIN g = DOMAIN f \cup Upto(p)
    /\ \A q \in DOMAIN g : IF q \in DOMAIN f THEN g[q] = f[q] ELSE g[q].kind = "dir"

\* C20 as stated: mkdir on an existing directory reports that it exists and
\* leaves the filesystem unchanged; mkdir on an absent path creates it with
\* all missing intermediate directories; the same mkdir twice leaves the
\* filesystem as once.
C20_MkdirAnyAbsent ==
    [][MkdirStep =>
          LET target == get_safe_path(fs, base_path, last'.path)
          IN /\ target.ok =>
                   /\ (Exists(fs, target.path) /\ fs[target.path].kind = "dir")
                         => (last'.result.msg = "directory_exists" /\ fs' = fs)
                   /\ ~Exists(fs, target.path)
                         => (last'.result.msg = "directory_created"
                             /\ Created(fs, fs', target.path))
             /\ MkdirAgain => fs' = fs]_vars

\* C20 amended: as C20, but an absent path is created only when the deepest
\* existing path towards it is a directory the process may write in;
\* otherwise mkdir returns a failure and leaves the filesystem unchanged.
C20_MkdirIdempotent ==
    [][MkdirStep =>
          LET target == get_safe_path(fs, base_path, last'.path)
          IN /\ target.ok =>
                   /\ (Exists(fs, target.path) /\ fs[target.path].kind = "dir")
                         => (last'.result.msg = "directory_exists" /\ fs' = fs)
                   /\ (~Exists(fs, target.path) /\ Creatable(fs, target.path))
                         => (last'.result.msg = "directory_created"
                             /\ Created(fs, fs', target.path))
                   /\ (~Exists(fs, target.path) /\ ~Creatable(fs, target.path))
                         => (last'.result.msg \in {"mkdir_failed", "no_permission_mkdir"}
                             /\ fs' = fs)
             /\ MkdirAgain => fs' = fs]_vars

\* the mkdir of new/deep/er made again after it created the three
\* directories
C20_Witness ==
    /\ last.tool = "file_tool" /\ last.op = "mkdir" /\ last.executed
    /\ last.path = Rel(<<"new", "deep", "er">>)
    /\ last.result.msg = "directory_exists"
    /\ \A k \in 1..3 :
          LET q == base_path \o SubSeq(<<"new", "deep", "er">>, 1, k)
          IN Exists(fs, q) /\ fs[q].kind = "dir"
\* a path that names a directory of the sandbox that may be listed
Listable(f, p) == InSandbox(p) /\ Exists(f, p) /\ f[p].kind = "dir" /\ ~f[p].deny

\* the entries of a directory that are directories, as item.is_dir() tells
SubDirs(f, p) ==
    {c \in Children(f, p) : Exists(f, Follow(f, c)) /\ f[Follow(f, c)].kind = "dir"}

\* the number of times a token occurs in a result text
Count(body, t) == Cardinality({i \in 1..Len(body) : body[i] = t})

ListDone == last.tool = "file_tool" /\ last.op = "list" /\ last.returned

\* C21: a listing shows at most ListLimit directories and at most ListLimit
\* files; whenever the directories or the files of the directory are more
\* than ListLimit the result ends with the suffix that reports more entries;
\* listing an empty directory returns the "empty" result.
C21_ListCapped ==
    (ListDone /\ Listable(fs, Canonical(last.path)))
        => LET p == Canonical(last.path)
               dirs == Cardinality(SubDirs(fs, p))
               files == Cardinality(Children(fs, p)) - dirs
           IN IF dirs + files = 0 THEN last.result.msg = "directory_empty"
              ELSE /\ last.result.msg = "directory_listing"
                   /\ Count(last.result.body, "<dir entry>") = Min(dirs, ListLimit)
                   /\ Count(last.result.body, "<file entry>") = Min(files, ListLimit)
                   /\ (dirs > ListLimit \/ files > ListLimit)
                          => Count(last.result.body, "<more items>") = 1

\* a search that walked a directory of the sandbox
SearchDone ==
    /\ last.tool = "file_tool" /\ last.op = "search" /\ last.returned
    /\ last.result.msg \in {"search_results", "search_no_match"}

\* C22: for every directory tree and pattern, the number of matches a search
\* collects and reports never exceeds SearchLimit, however many matching
\* files a single directory holds.
C22_MatchCeiling == SearchDone => last.found <= SearchLimit

\* the depth of a directory below the root of the search
DepthBelow(d, top) == Len(d) - Len(top)

\* C23: a search never visits a directory deeper than SearchDepth below the
\* search root: the directories beyond are not descended into, so every
\* directory visited belongs to the tree cut at that depth.
C23_DepthCeiling ==
    SearchDone
        => \A d \in last.visited : DepthBelow(d, Canonical(last.path)) <= SearchDepth

\* a read that returned the raw text of a file
RawRead == last.tool = "file_tool" /\ last.op = "read" /\ last.result.msg = "file_content"

\* the result text ends with the truncation marker
Marked(body) == body # <<>> /\ body[Len(body)] = "<truncated>"

\* the characters of the file a result text shows
Shown(body) == IF Marked(body) THEN SubSeq(body, 1, Len(body) - 1) ELSE body

\* C24: a raw-text read returns at most ReadLimit characters of the content
\* of the file, its first ones, and the truncation marker is appended if
\* and only if the file holds more characters than ReadLimit.
C24_ReadTruncation ==
    RawRead
        => \E content \in {NormNewlines(fs[Canonical(last.path)].content)} :
              /\ Shown(last.result.body) = Take(content, ReadLimit)
              /\ Marked(last.result.body) <=> Len(content) > ReadLimit

\* a reference that names its own scheme
HasScheme(ref) ==
    ref # <<>> /\ Head(ref) \in {"http://", "https://", "ftp://", "mailto:", "data:image"}

\* the position of the last "/" of the path of a URL
LastSlash(url) ==
    CHOOSE i \in 3..Len(url) : url[i] = "/" /\ \A j \in i + 1..Len(url) : url[j] # "/"

\* the directory above a directory of a URL (the root is its own parent)
ParentDir(dir) == IF Len(dir) <= 3 THEN dir ELSE SubSeq(dir, 1, Len(dir) - 2)

\* a document-relative reference merged with the directory of the document
RECURSIVE Merge(_, _)
Merge(dir, ref) ==
    IF Len(ref) >= 2 /\ ref[1] = ".." /\ ref[2] = "/"
    THEN Merge(ParentDir(dir), SubSeq(ref, 3, Len(ref)))
    ELSE dir \o ref

\* a reference resolved against the URL of the request
ResolveRef(url, ref) ==
    IF HasScheme(ref) THEN ref
    ELSE IF Head(ref) = "//" THEN <<url[1]>> \o Tail(ref)
    ELSE IF Head(ref) = "/" THEN SubSeq(url, 1, 2) \o ref
    ELSE Merge(SubSeq(url, 1, LastSlash(url)), ref)

\* the references that are not discarded: the relative ones and those of
\* scheme http(s), for images those of scheme data too
KeptRef(op, ref) ==
    \/ ~HasScheme(ref)
    \/ StartsWithHttp(ref)
    \/ op = "images" /\ Head(ref) = "data:image"

\* the entries of the result: the kept references, resolved, each after
\* its text
Entries(op, url, refs) ==
    LET kept == SelectSeq(refs, LAMBDA r : KeptRef(op, r.href))
    IN [k \in 1..Len(kept) |-> kept[k].text \o ResolveRef(url, kept[k].href)]

ExtractDone ==
    /\ last.tool = "web_tool" /\ last.op \in {"links", "images"}
    /\ last.result.msg \in {"links", "no_links", "images", "no_images"}

\* C25: link and image extraction resolves every relative reference
\* (root-relative and document-relative) against the request URL and lists
\* it; only the references of a scheme other than http(s) (and data, for
\* images) are discarded; at most LinksShown (ImagesShown) entries are
\* listed, followed by the count of the entries left out.
C25_ReferencesResolved ==
    ExtractDone
        => LET cap == IF last.op = "links" THEN LinksShown ELSE ImagesShown
               E == Entries(last.op, last.url, last.refs)
           IN IF E = <<>> THEN last.result = Result("no_" \o last.op, <<>>)
              ELSE last.result =
                      Result(last.op,
                             last.url \o NatStr(Len(E)) \o Flatten(Take(E, cap))
                                 \o (IF Len(E) > cap
                                     THEN <<"<more entries>">> \o NatStr(Len(E) - cap)
                                     ELSE <<>>))

\* a call of a tool as a function
CallDone == last.via = "__call__" /\ last.op = "__call__"

FileRequest ==
    /\ CallDone /\ last.tool = "file_tool"
    /\ last.kwargs.operation.t = "name" /\ last.kwargs.operation.name # ""
    /\ last.kwargs.path.t = "path" /\ last.kwargs.path.path # NoPath

\* C27: FileTool.validate_input accepts every request with a non-empty
\* operation and a non-empty path that resolves inside the sandbox root and
\* does not lie under one of the system or user-profile directories of the
\* deny-list.
C27_ValidPathAccepted ==
    (/\ FileRequest
     /\ InSandbox(Canonical(last.kwargs.path.path))
     /\ ~DenyListed(Canonical(last.kwargs.path.path)))
        => last.accepted

\* a call of the web tool as a function with an operation and an http(s) URL
WebRequest ==
    /\ CallDone /\ last.tool = "web_tool"
    /\ last.kwargs.operation.t = "name" /\ last.kwargs.operation.name # ""
    /\ last.kwargs.url.t = "str" /\ StartsWithHttp(last.kwargs.url.text)

\* C28: WebTool.validate_input decides on the host of the URL only: an
\* http(s) URL is rejected exactly when its host is a loopback or
\* private-network address, whatever its path and query contain.
C28_HostDecides ==
    WebRequest => (last.accepted <=> ~IsInternalHost(UrlHost(last.kwargs.url.text)))


\* C29: the length of conversation_history equals the number of queries that
\* returned success = true since the last clear_history: a query with an
\* empty or whitespace-only input returns success = false without invoking
\* the executor and leaves the history as it was, a query whose executor
\* raises returns success = false and leaves the history as it was, a
\* successful query appends exactly one entry at the end, and clear_history
\* empties the history.
QueryStep == last'.via = "query"

C29_HistoryCounts ==
    /\ [](Len(conversation_history) = successes)
    /\ [][/\ (QueryStep /\ query_blank(last'.user_input))
                => (/\ ~last'.success
                    /\ ~last'.invoked
                    /\ conversation_history' = conversation_history)
          /\ (QueryStep /\ ~last'.success)
                => conversation_history' = conversation_history
          /\ (QueryStep /\ last'.success)
                => (/\ last'.invoked
                    /\ Len(conversation_history') = Len(conversation_history) + 1
                    /\ SubSeq(conversation_history', 1, Len(conversation_history))
                           = conversation_history
                    /\ conversation_history'[Len(conversation_history')].user
                           = last'.user_input)
          /\ last'.via = "clear_history" => conversation_history' = <<>>]_vars

\* a successful query has followed a failed one and a cleared history: the
\* history holds two entries, and the last call was a query whose executor
\* raised
C29_Witness ==
    /\ last.via = "query"
    /\ last.invoked
    /\ ~last.success
    /\ Len(conversation_history) = 2
    /\ successes = 2

\* C30: for every limit >= 0, get_history(limit) returns at most limit
\* entries, the most recent min(limit, len(history)) entries in
\* chronological order, and leaves the history unchanged.
C30_HistoryWindow ==
    (last.via = "get_history" /\ last.limit >= 0)
        => /\ Len(last.history) <= last.limit
           /\ last.history =
                  SubSeq(conversation_history,
                         Len(conversation_history)
                             - Min(last.limit, Len(conversation_history)) + 1,
                         Len(conversation_history))
====
